---- MODULE Spec2Model ----
(***************************************************************************)
(* A model of the qiniu upload SDK: the discovery-side retry loop          *)
(* (query.rs, query_with_retry) over a HostSelector, the process-wide      *)
(* resolution cache (query.rs, CACHE_MAP and its persistence), the source  *)
(* partitioner (reader.rs) and the single-shot / multi-part decision of    *)
(* the uploader (uploader.rs).                                             *)
(*                                                                         *)
(* host_selector.rs is not part of the sources at hand: select_host,       *)
(* reward, punish and increase_timeout_power_by follow section 4.1 of the  *)
(* specification.                                                          *)
(***************************************************************************)
EXTENDS Integers, Sequences, FiniteSets, TLC

\* ------------------------------------------------------------------ bounds
MaxHosts == 2
MaxTries == 3
MaxTime == 1
MaxAttempts == 3
MaxPunishDuration == 2
\* the widths of u64 and u32, scaled down
U64Bits == 4
U32Bits == 3
\* calls of query_for_up_urls, restarts of the process, characters of a domain
MaxCalls == 2
MaxRestarts == 1
MaxDomainLen == 4

\* ------------------------------------------------------- program constants
\* UploaderBuilder::new: max_punished_hosts_percent
MaxPunishedHostsPercent == 50
\* the cap of the adaptive timeout exponent (section 4.1: "capped at a maximum exponent")
MaxTimeoutPower == 2

VARIABLES
  cfg,        \* the configuration the querier was built with
  now,        \* SystemTime::now(), in model time units
  hostState,  \* discovery HostSelector: per-host timeoutPower / punishment record
  hostIndex,  \* discovery HostSelector: rotating start index of the scan
  th,         \* the threads: thread id -> its position and locals
  attempts,   \* number of attempts (calls of for_each_host) made so far
  up,         \* one upload request (UploadRequestBuilder::start) and its source
  cache,      \* CACHE_MAP: cache key -> CacheValue
  lock,       \* the write lock of each shard of CACHE_MAP, and CACHE_FILE_LOCK
  disk,       \* the cache file: its state, its entries, and what was serialised
  boot,       \* CACHE_INIT: whether the file was loaded, and what the load gave
  stat,       \* counters: upstream hits, discovery runs and installs per key, calls
  q,          \* one application of query_for_up_urls to a response body
  upSelector  \* upload HostSelector: its host list snapshot and its refreshes

selectorVars == <<cfg, now, hostState, hostIndex, th, attempts>>
uploadVars == <<up, upSelector>>
cacheVars == <<cache, lock, disk, boot, stat, q>>
vars == <<selectorVars, uploadVars, cacheVars>>

\* ------------------------------------------------------------------ values
Min2(a, b) == IF a < b THEN a ELSE b
Max2(a, b) == IF a < b THEN b ELSE a

\* HttpCallError: what an attempt can fail with
NoError == [kind |-> "none", code |-> 0]
TransportError == [kind |-> "transport", code |-> 0]
TimeoutError == [kind |-> "timeout", code |-> 0]
BuilderError == [kind |-> "builder", code |-> 0]
DecodeError == [kind |-> "decode", code |-> 0]
StatusError(c) == [kind |-> "status", code |-> c]

\* the failures one environment produces: a run of the model draws from one of these
ErrorSets ==
  { {TransportError, TimeoutError, DecodeError},
    {BuilderError, StatusError(404), StatusError(406)},
    {StatusError(500), StatusError(501), StatusError(573)},
    {StatusError(400), StatusError(499), StatusError(503)},
    {StatusError(612), StatusError(701), TimeoutError},
    {StatusError(405), StatusError(406), StatusError(407)},
    {StatusError(608), StatusError(614), StatusError(616)},
    {StatusError(619), StatusError(630), StatusError(631)},
    {StatusError(640), StatusError(641), StatusError(399)} }

\* ResponseBody: a sequence of regions, each with a ttl and its up domains.
\* A domain is a sequence of characters.
Region(ttl, domains) == [ttl |-> ttl, domains |-> domains]
DomUp == <<"u", "p">>
DomFull == <<"s", ":", "/", "/", "u">>
DomAlt == <<"a">>
BodyA == <<Region(1, <<DomUp>>)>>
BodyB == <<Region(2, <<DomFull, DomAlt>>), Region(1, <<DomUp>>)>>
BodyZ == <<Region(0, <<DomAlt>>)>>
BodyNoRegion == <<>>

\* the results of a retry run, of a resolve call
NoResult == [kind |-> "none"]
Ok(v) == [kind |-> "ok", value |-> v]
Err(e) == [kind |-> "err", err |-> e]
Panicked == [kind |-> "panic"]

\* --------------------------------------------------- uploader.rs predicates
\* StatusCode::is_client_error
IsClientErrorClass(code) == code >= 400 /\ code <= 499
\* the codes is_client_error_status lists one by one
ListedStatusCodes == {501, 573, 608, 612, 614, 616, 619, 630, 631, 640, 701}

IsClientErrorStatusWith406(code) ==
  IsClientErrorClass(code) \/ code \in ListedStatusCodes
IsClientErrorStatusClassOnly(code) ==
  IsClientErrorClass(code) /\ code # 406
\* uploader.rs is_client_error_status
IsClientErrorStatus(code) ==
  \/ (IsClientErrorClass(code) /\ code # 406)
  \/ code \in ListedStatusCodes

\* the should_punish_callback of the upload selector (UploaderBuilder::build)
UploadShouldPunishSparesDecode(e) ==
  CASE e.kind \in {"builder", "decode"} -> FALSE
    [] e.kind = "status" -> ~IsClientErrorStatus(e.code)
    [] OTHER -> TRUE
UploadShouldPunish(e) ==
  CASE e.kind = "builder" -> FALSE
    [] e.kind = "status" -> ~IsClientErrorStatus(e.code)
    [] OTHER -> TRUE

\* the default predicate of a selector built without should_punish_callback
DefaultShouldPunish(e) == TRUE

ShouldPunish(e) ==
  IF cfg.predicate = "upload" THEN UploadShouldPunish(e) ELSE DefaultShouldPunish(e)

\* ------------------------------------------------------------ HostSelector
FreshHost == [timeoutPower |-> 0, punishedUntil |-> 0, punishedTimes |-> 0]

IsPunished(h, hs, t) == t < hs[h].punishedUntil

\* skipped-count / total-hosts exceeds the maximum punished percentage
SkipLimitReachedInclusive(skipped) ==
  skipped * 100 >= cfg.maxPunishedHostsPercent * cfg.numHosts
SkipLimitReached(skipped) ==
  skipped * 100 > cfg.maxPunishedHostsPercent * cfg.numHosts

RECURSIVE ScanFrom(_, _)
ScanFrom(i, skipped) ==
  LET h == (i % cfg.numHosts) + 1
  IN  IF IsPunished(h, hostState, now) /\ ~SkipLimitReached(skipped)
      THEN ScanFrom(i + 1, skipped + 1)
      ELSE [host |-> h, index |-> (i + 1) % cfg.numHosts,
            timeoutPower |-> hostState[h].timeoutPower, skipped |-> skipped]

SelectHost == ScanFrom(hostIndex, 0)

Reward(hs, h) == [hs EXCEPT ![h] = FreshHost]

Punish(hs, h) ==
  [hs EXCEPT ![h].punishedUntil = now + cfg.punishDuration,
             ![h].punishedTimes = @ + 1]

IncreaseTimeoutPowerBy(hs, h, observed) ==
  [hs EXCEPT ![h].timeoutPower = Max2(@, Min2(observed + 1, MaxTimeoutPower))]

\* ------------------------------------------------------------- cache keys
\* CacheKey { ak, bucket }: both are strings, here sequences of characters
CacheKey(ak, bucket) == [ak |-> ak, bucket |-> bucket]
KPlain == CacheKey(<<"a">>, <<"b">>)
KOther == CacheKey(<<"a">>, <<"c">>)
KBucketColon == CacheKey(<<"a">>, <<":", "b">>)
KAkColon == CacheKey(<<"a", ":">>, <<"b">>)
\* the order in which a shard's entries are visited
KeyOrder == <<KPlain, KOther, KBucketColon, KAkColon>>
KeyUniverse == {KeyOrder[i] : i \in 1..Len(KeyOrder)}

\* impl Serialize for CacheKey: format!("{}:{}", self.ak, self.bucket)
SerializeKey(k) == k.ak \o <<":">> \o k.bucket

RECURSIVE FirstColon(_, _)
FirstColon(s, i) ==
  IF i > Len(s) THEN 0
  ELSE IF s[i] = ":" THEN i
  ELSE FirstColon(s, i + 1)

\* CacheKeyVisitor::visit_str: value.splitn(2, ':')
DeserializeKey(s) ==
  LET i == FirstColon(s, 1)
  IN  IF i = 0 THEN [ok |-> FALSE, key |-> KPlain]
      ELSE [ok |-> TRUE,
            key |-> CacheKey(SubSeq(s, 1, i - 1), SubSeq(s, i + 1, Len(s)))]

\* ----------------------------------------------------- CACHE_MAP (DashMap)
\* the number of shards of the map
NShards == 2
NoEntry == [kind |-> "none"]
EmptyMap == [k \in {} |-> NoEntry]
Put(f, k, v) == [x \in (DOMAIN f) \cup {k} |-> IF x = k THEN v ELSE f[x]]
ShardOf(k) == cfg.shardOf[k]
ShardAssignments ==
  { [k \in KeyUniverse |-> 1],
    [k \in KeyUniverse |-> IF k \in {KOther, KAkColon} THEN 2 ELSE 1] }

\* entry(): the shard's write lock is free
EntryLockFreeAlways(s) == TRUE
EntryLockFree(s) == lock.shard[s] = 0

\* cache_value.cache_deadline < SystemTime::now()
IsExpiredInclusive(v, t) == v.deadline <= t
IsExpired(v, t) == v.deadline < t

\* *cache_value = new_cache_value
RefreshedValueKept(old, new) == old
RefreshedValue(old, new) == new

\* ------------------------------------------------------ normalize_domain
SchemeSeparator == <<":", "/", "/">>
HttpsPrefix == <<"h", "t", "t", "p", "s", ":", "/", "/">>
HttpPrefix == <<"h", "t", "t", "p", ":", "/", "/">>

RECURSIVE FindFrom(_, _, _)
FindFrom(s, pat, i) ==
  IF i + Len(pat) - 1 > Len(s) THEN FALSE
  ELSE IF SubSeq(s, i, i + Len(pat) - 1) = pat THEN TRUE
  ELSE FindFrom(s, pat, i + 1)

\* str::contains
Contains(s, pat) == FindFrom(s, pat, 1)

NormalizeDomain(domain, useHttps) ==
  IF Contains(domain, SchemeSeparator) THEN domain
  ELSE IF useHttps THEN HttpsPrefix \o domain
  ELSE HttpPrefix \o domain

\* response_body.hosts.first()
FirstRegionLast(body) == body[Len(body)]
FirstRegion(body) == body[1]

\* query_for_up_urls: the map over the first region's domains
UpUrls(body, useHttps) ==
  IF body = <<>> THEN Panicked
  ELSE LET domains == FirstRegion(body).domains
       IN  Ok([i \in 1..Len(domains) |-> NormalizeDomain(domains[i], useHttps)])

\* ------------------------------------------------- the cache file on disk
NoFile == [state |-> "missing", entries |-> <<>>, src |-> EmptyMap]
TruncatedFile == [state |-> "partial", entries |-> <<>>, src |-> EmptyMap]

\* the keys of shard s that are in the map, in visiting order
ShardKeys(s) ==
  SelectSeq(KeyOrder, LAMBDA k : k \in DOMAIN cache /\ ShardOf(k) = s)

\* json_to_writer over one shard: its entries are appended to the file
WriteShard(d, s) ==
  LET ks == ShardKeys(s)
  IN  [d EXCEPT
         !.entries = @ \o [i \in 1..Len(ks) |->
                             [token |-> SerializeKey(ks[i]), value |-> cache[ks[i]]]],
         !.src = [k \in (DOMAIN @) \cup {ks[i] : i \in 1..Len(ks)} |->
                    IF k \in DOMAIN cache /\ ShardOf(k) = s THEN cache[k] ELSE @[k]]]

\* json_from_reader into HashMap<CacheKey, CacheValue>
RECURSIVE ParseEntries(_, _)
ParseEntries(entries, acc) ==
  IF entries = <<>> THEN [ok |-> TRUE, map |-> acc]
  ELSE LET p == DeserializeKey(entries[1].token)
       IN  IF ~p.ok THEN [ok |-> FALSE, map |-> acc]
           ELSE ParseEntries(Tail(entries), Put(acc, p.key, entries[1].value))

\* load_cache: CACHE_MAP.clear() and the inserts, when the file opens and parses
LoadCache(d, c) ==
  IF d.state # "complete" THEN [loaded |-> FALSE, cache |-> c]
  ELSE LET p == ParseEntries(d.entries, EmptyMap)
       IN  IF p.ok THEN [loaded |-> TRUE, cache |-> p.map]
           ELSE [loaded |-> FALSE, cache |-> c]

NoBoot == [init |-> FALSE, loaded |-> FALSE, src |-> EmptyMap, got |-> EmptyMap,
           hits |-> [k \in KeyUniverse |-> 0]]
NoStat == [hits |-> [k \in KeyUniverse |-> 0], runs |-> [k \in KeyUniverse |-> 0],
           fails |-> [k \in KeyUniverse |-> 0],
           ver |-> [k \in KeyUniverse |-> 0], calls |-> 0, restarts |-> 0]
NoLocks == [shard |-> [s \in 1..NShards |-> 0], file |-> 0]
NoQuery == [pc |-> "none"]

\* the cache variables of a process that has resolved nothing
InitNoCache ==
  /\ cache = EmptyMap
  /\ lock = NoLocks
  /\ disk = NoFile
  /\ boot = NoBoot
  /\ stat = NoStat

\* an attempt of a discovery run for a key is one upstream hit for that key
CountHit(t) ==
  IF th[t].kind = "runner" THEN stat
  ELSE [stat EXCEPT !.hits[th[t].key] = @ + 1]

\* ------------------------------------------------- query_with_retry (loop)
\* for _ in 0..tries
LoopContinuesOffByOne(i, tries) == i < tries + 1
LoopContinues(i, tries) == i < tries

\* if !punished { return Err(err) }
ReturnsAtOnceNever(punished) == FALSE
ReturnsAtOnce(punished) == ~punished

\* if err.is_timeout()
IsTimeoutNever(e) == FALSE
IsTimeout(e) == e.kind = "timeout"

\* last_error = Some(err)
NextLastError(old, err) == err

\* uc_selector.reward(&host_info.host)
RewardedHostOther(h) == (h % cfg.numHosts) + 1
RewardedHost(h) == h

\* Err(last_error.expect("No UC tries error"))
ExhaustedResult(lastError) ==
  IF lastError = NoError THEN Panicked ELSE Err(lastError)

\* hosts.iter().map(|host| host.ttl).min()
MinTtlOfFirstRegion(body) == body[1].ttl
RECURSIVE MinTtl(_)
MinTtl(body) ==
  IF Len(body) = 1 THEN body[1].ttl
  ELSE Min2(body[1].ttl, MinTtl(Tail(body)))

\* the map closure of query_for_domains_without_cache: the CacheValue of a body
CacheValueOf(body) == [body |-> body, deadline |-> now + MinTtl(body)]

RetryLocals ==
  [i |-> 0, lastError |-> NoError, host |-> 0, power |-> 0, ret |-> NoResult,
   log |-> <<>>]

\* one iteration's head: the loop test, select_host, and the request is sent
RetrySelect(t) ==
  /\ th[t].pc = "select"
  /\ IF LoopContinues(th[t].rr.i, cfg.tries)
     THEN LET s == SelectHost
          IN  /\ hostIndex' = s.index
              /\ th' = [th EXCEPT ![t].pc = "call",
                                  ![t].rr.i = @ + 1,
                                  ![t].rr.host = s.host,
                                  ![t].rr.power = s.timeoutPower]
              /\ attempts' = attempts + 1
              /\ stat' = CountHit(t)
     ELSE /\ th' = [th EXCEPT ![t].pc = "retried",
                              ![t].rr.ret = ExhaustedResult(th[t].rr.lastError)]
          /\ UNCHANGED <<hostIndex, attempts, stat>>
  /\ UNCHANGED <<cfg, now, hostState, uploadVars, cache, lock, disk, boot, q>>

\* the attempt's outcome arrives: reward and return, or punish and go on
RetryRespond(t) ==
  /\ th[t].pc = "call"
  /\ \E body \in cfg.bodies, e \in cfg.errors, ok \in BOOLEAN :
       LET h == th[t].rr.host
           entry(res, punished, hs) ==
             [host |-> h, res |-> res,
              err |-> IF ok THEN NoError ELSE e,
              body |-> IF ok THEN body ELSE <<>>,
              punished |-> punished,
              wasPunished |-> IsPunished(h, hostState, now),
              powerUsed |-> th[t].rr.power,
              powerBefore |-> hostState[h].timeoutPower,
              timesDelta |-> hs[h].punishedTimes - hostState[h].punishedTimes,
              untilDelta |-> hs[h].punishedUntil - now,
              powerAfter |-> hs[h].timeoutPower,
              timesAfter |-> hs[h].punishedTimes]
       IN
       IF ok /\ body = BodyNoRegion
       THEN \* .expect("No host in uc query v4 response body")
            /\ th' = [th EXCEPT ![t].pc = "retried",
                                ![t].rr.ret = Panicked,
                                ![t].rr.log = Append(@, entry("panic", FALSE, hostState))]
            /\ UNCHANGED hostState
       ELSE IF ok
       THEN LET hs == Reward(hostState, RewardedHost(h))
            IN  /\ hostState' = hs
                /\ th' = [th EXCEPT ![t].pc = "retried",
                                    ![t].rr.ret = Ok(CacheValueOf(body)),
                                    ![t].rr.log = Append(@, entry("ok", FALSE, hs))]
       ELSE LET hs1 == IF IsTimeout(e)
                       THEN IncreaseTimeoutPowerBy(hostState, h, th[t].rr.power)
                       ELSE hostState
                punished == ShouldPunish(e)
                hs2 == IF punished THEN Punish(hs1, h) ELSE hs1
            IN  /\ hostState' = hs2
                /\ IF ReturnsAtOnce(punished)
                   THEN th' = [th EXCEPT ![t].pc = "retried",
                                         ![t].rr.ret = Err(e),
                                         ![t].rr.log = Append(@, entry("err", punished, hs2))]
                   ELSE th' = [th EXCEPT ![t].pc = "select",
                                         ![t].rr.lastError =
                                            NextLastError(@, e),
                                         ![t].rr.log = Append(@, entry("err", punished, hs2))]
  /\ UNCHANGED <<cfg, now, hostIndex, attempts, uploadVars, cacheVars>>

\* ----------------------------------------------------------------- clock
Tick ==
  /\ now < MaxTime
  /\ now' = now + 1
  /\ UNCHANGED <<cfg, hostState, hostIndex, th, attempts, uploadVars, cacheVars>>

\* ------------------------------- a direct run of query_for_domains_without_cache
Runner == [kind |-> "runner", pc |-> "idle", rr |-> RetryLocals,
           result |-> NoResult]

RunnerStart(t) ==
  /\ th[t].kind = "runner"
  /\ th[t].pc = "idle"
  /\ attempts + cfg.tries <= MaxAttempts
  /\ th' = [th EXCEPT ![t].pc = "select", ![t].rr = RetryLocals,
                      ![t].result = NoResult]
  /\ UNCHANGED <<cfg, now, hostState, hostIndex, attempts, uploadVars, cacheVars>>

RunnerFinish(t) ==
  /\ th[t].kind = "runner"
  /\ th[t].pc = "retried"
  /\ th' = [th EXCEPT ![t].pc = "done", ![t].result = th[t].rr.ret]
  /\ UNCHANGED <<cfg, now, hostState, hostIndex, attempts, uploadVars, cacheVars>>

RunnerAgain(t) ==
  /\ th[t].kind = "runner"
  /\ th[t].pc = "done"
  /\ th[t].result.kind # "panic"
  /\ th' = [th EXCEPT ![t].pc = "idle", ![t].rr = RetryLocals]
  /\ UNCHANGED <<cfg, now, hostState, hostIndex, attempts, uploadVars, cacheVars>>

\* the upload variables of a system that uploads nothing
NoUpload == [pc |-> "none"]
\* no Uploader was built
NoUpSelector == [pc |-> "none"]

Configs(hostCounts, triesSet, errorSets, bodySets) ==
  [numHosts : hostCounts, tries : triesSet, predicate : {"default", "upload"},
   punishDuration : 1..MaxPunishDuration, errors : errorSets, bodies : bodySets,
   maxPunishedHostsPercent : {MaxPunishedHostsPercent}]

InitRetry ==
  /\ cfg \in Configs(1..MaxHosts, 0..MaxTries, ErrorSets, {{BodyB, BodyNoRegion}})
  /\ now = 0
  /\ hostState = [h \in 1..cfg.numHosts |-> FreshHost]
  /\ hostIndex = 0
  /\ th = [t \in {1} |-> Runner]
  /\ attempts = 0
  /\ up = NoUpload
  /\ upSelector = NoUpSelector
  /\ InitNoCache
  /\ q = NoQuery

NextRetry ==
  \/ Tick
  \/ \E t \in DOMAIN th : RunnerStart(t)
  \/ \E t \in DOMAIN th : RetrySelect(t)
  \/ \E t \in DOMAIN th : RetryRespond(t)
  \/ \E t \in DOMAIN th : RunnerFinish(t)
  \/ \E t \in DOMAIN th : RunnerAgain(t)

SpecRetry == InitRetry /\ [][NextRetry]_vars

\* ------------------------------------------------------- u64 / u32 values
U64Max == 2 ^ U64Bits - 1
U32Max == 2 ^ U32Bits - 1

\* a + b on u64: the sum wraps in a release build and panics in a debug build
AddU64(a, b) == [overflow |-> a + b > U64Max, value |-> (a + b) % (U64Max + 1)]
SaturatingAddU64(a, b) == Min2(a + b, U64Max)
SaturatingAddU32(a, b) == Min2(a + b, U32Max)

\* --------------------------------------------------------- byte sequences
\* the bytes of a source of n bytes: byte i is named i
Content(n) == [i \in 1..n |-> i]
\* Read::take(n) followed by read_to_end, and what it leaves unread
\* a single read call that returns one byte, in place of read_to_end
TakeBytesSingleRead(s, n) == SubSeq(s, 1, Min2(1, Min2(n, Len(s))))
TakeBytes(s, n) == SubSeq(s, 1, Min2(n, Len(s)))
DropBytes(s, n) == SubSeq(s, Min2(n, Len(s)) + 1, Len(s))

\* ------------------------------------------------- UploadSourcePartitioner
\* UploadSource::part: a file of known size (or a buffer) is partible, a
\* reader is impartible
Partible == [kind |-> "partible", offset |-> 0, stream |-> <<>>]
Impartible(stream) == [kind |-> "impartible", offset |-> 0, stream |-> stream]
NoPartitioner == [kind |-> "none", offset |-> 0, stream |-> <<>>]

NoPart == [kind |-> "none", start |-> 0, len |-> 0, data |-> <<>>]
ReadAtPart(start, len) == [kind |-> "readat", start |-> start, len |-> len, data |-> <<>>]
DataPart(data) == [kind |-> "data", start |-> 0, len |-> 0, data |-> data]

\* if total_size > *offset
HasNextPartInclusive(total, offset) == total >= offset
HasNextPart(total, offset) == total > offset

\* UploadSourcePartitioner::next_part_reader on a source of `size` bytes
NextPartReader(pt, size, partSize, build) ==
  IF pt.kind = "partible"
  THEN IF HasNextPart(size, pt.offset)
       THEN LET sum == AddU64(pt.offset, partSize)
            IN  IF sum.overflow /\ build = "debug"
                THEN [res |-> "panic", part |-> NoPart, pt |-> pt]
                ELSE [res |-> "some",
                      part |-> ReadAtPart(pt.offset, partSize),
                      pt |-> [pt EXCEPT !.offset = sum.value]]
       ELSE [res |-> "none", part |-> NoPart, pt |-> pt]
  ELSE LET buf == TakeBytes(pt.stream, partSize)
           rest == DropBytes(pt.stream, partSize)
       IN  IF buf = <<>>
           THEN [res |-> "none", part |-> NoPart, pt |-> [pt EXCEPT !.stream = rest]]
           ELSE [res |-> "some", part |-> DataPart(buf),
                 pt |-> [pt EXCEPT !.stream = rest]]

\* PartReader::reader: the bytes a part reads from a source of `size` bytes
PartBytes(part, size) ==
  IF part.kind = "data" THEN part.data
  ELSE IF part.start >= size THEN <<>>
  ELSE SubSeq(Content(size), part.start + 1, Min2(part.start + part.len, size))

\* ------------------------------------------------------- UploadOrchestrator
\* total_size <= part_size: the single-shot path
TakesFormPathStrict(total, partSize) == total < partSize
TakesFormPath(total, partSize) == total <= partSize

NewUpload(mode, build, size, partSize, hasCallback) ==
  [mode |-> mode, build |-> build, size |-> size, partSize |-> partSize,
   hasCallback |-> hasCallback, pc |-> "start",
   payload |-> <<>>,         \* the form upload's source
   rest |-> <<>>,            \* what a reader source has not yet given
   pt |-> NoPartitioner,
   part |-> NoPart,          \* the part being uploaded
   uploadId |-> 0,
   partNumber |-> 0,
   uploaded |-> 0,
   etag |-> 0,
   completedParts |-> <<>>,
   calls |-> <<>>,           \* the remote calls and callbacks made so far
   error |-> "none",         \* the step whose Err start returned
   result |-> "none"]

\* the steps of an upload that can fail, as they are recorded in up.calls:
\* the remote calls, the progress callback, and a read of the source
Step(op, n, id, bytes, parts, uploaded) ==
  [op |-> op, number |-> n, id |-> id, bytes |-> bytes, parts |-> parts,
   uploaded |-> uploaded, etag |-> 0, ok |-> TRUE]
FormCall(bytes) == Step("form", 0, 0, bytes, <<>>, 0)
InitCall == Step("init", 0, 0, <<>>, <<>>, 0)
PartCall(n, bytes) == Step("part", n, 0, bytes, <<>>, 0)
ProgressCall(n, uploaded) == Step("progress", n, 0, <<>>, <<>>, uploaded)
CompleteCall(parts) == Step("complete", 0, 0, <<>>, parts, 0)
\* source.size()?, read_to_end(..)?, upload_source.part(..)?, next_part_reader()?
ReadStep == Step("read", 0, 0, <<>>, <<>>, 0)
\* the session a remote call or a callback is given (upload_id)
InSession(call, id) == [call EXCEPT !.id = id]
\* the etag a successful upload_part returns for the part
Returning(call, etag) == [call EXCEPT !.etag = etag]
\* upload_result.uploaded(): the byte length of the part that was uploaded
PartUploaded(bytes, ok) == IF ok THEN Len(bytes) ELSE 0
\* the upload ids init_parts can return
SessionIds == {1, 2}
\* the same step, returning Err
Failing(call) == [call EXCEPT !.ok = FALSE]
Outcome(call, ok) == IF ok THEN call ELSE Failing(call)

\* the operator `?`: an Err leaves the function at once
PropagatesNever(ok) == FALSE
Propagates(ok) == ~ok

\* start_resumable_upload begins with init_parts
ResumableEntrySkipsInit == "next"
ResumableEntry == "init"

\* let mut part_number = 1u32
FirstPartNumber == 1

\* the upload has returned Err after the step `step`
FailedAt(u, step) ==
  [u EXCEPT !.pc = "failed", !.result = "err", !.error = step.op,
            !.calls = Append(@, Failing(step))]

\* start_uploading / start_uploading_reader: the path decision
StartUploading ==
  /\ up.pc = "start"
  /\ up.mode \in {"file", "reader"}
  /\ \E ok \in BOOLEAN :
       LET read == IF ok THEN up
                   ELSE [up EXCEPT !.calls = Append(@, Failing(ReadStep))]
       IN
       IF Propagates(ok)
       THEN \* self.source.size()?  /  read_to_end(&mut chunk_buf)?
            up' = FailedAt(up, ReadStep)
       ELSE IF up.mode = "file"
       THEN IF TakesFormPath(up.size, up.partSize)
            THEN up' = [read EXCEPT !.pc = "form", !.payload = Content(up.size)]
            ELSE up' = [read EXCEPT !.pc = ResumableEntry, !.pt = Partible]
       ELSE LET limit == AddU64(up.partSize, 1)
                firstChunk == TakeBytes(Content(up.size), limit.value)
                rest == DropBytes(Content(up.size), limit.value)
            IN  IF limit.overflow /\ up.build = "debug"
                THEN up' = [read EXCEPT !.pc = "panicked", !.result = "panic"]
                ELSE IF TakesFormPath(Len(firstChunk), up.partSize)
                THEN up' = [read EXCEPT !.pc = "form", !.payload = firstChunk,
                                        !.rest = rest]
                ELSE up' = [read EXCEPT !.pc = ResumableEntry,
                                        !.pt = Impartible(firstChunk \o rest)]
  /\ UNCHANGED <<selectorVars, cacheVars, upSelector>>

\* start_form_upload: api_caller.form_upload
FormUpload ==
  /\ up.pc = "form"
  /\ \E ok \in BOOLEAN :
       IF Propagates(ok)
       THEN up' = FailedAt(up, FormCall(up.payload))
       ELSE up' = [up EXCEPT !.pc = "done", !.result = "ok",
                             !.calls = Append(@, Outcome(FormCall(up.payload), ok))]
  /\ UNCHANGED <<selectorVars, cacheVars, upSelector>>

\* start_resumable_upload: api_caller.init_parts, then upload_source.part
InitParts ==
  /\ up.pc = "init"
  /\ \E ok \in BOOLEAN, id \in SessionIds, partOk \in BOOLEAN :
       \* UploadSource::part reads the size of a file; a reader is taken as it is
       /\ (up.mode = "reader" \/ ~ok) => partOk
       /\ LET init == Outcome(InSession(InitCall, IF ok THEN id ELSE 0), ok)
              called == [up EXCEPT !.calls = Append(@, init),
                                   !.uploadId = init.id]
          IN  IF Propagates(ok)
              THEN up' = FailedAt(up, InSession(InitCall, 0))
              ELSE IF Propagates(partOk)
              THEN up' = FailedAt(called, ReadStep)
              ELSE up' = [called EXCEPT !.pc = "next",
                                        !.partNumber = FirstPartNumber,
                                        !.uploaded = 0,
                                        !.calls = IF partOk THEN @
                                                  ELSE Append(@, Failing(ReadStep))]
  /\ UNCHANGED <<selectorVars, cacheVars, upSelector>>

\* while let Some(part_reader) = partitioner.next_part_reader()?
NextPart ==
  /\ up.pc = "next"
  /\ up.mode \in {"file", "reader"}
  /\ Len(up.completedParts) <= U64Max
  /\ \E ok \in BOOLEAN :
       LET n == NextPartReader(up.pt, up.size, up.partSize, up.build)
           read == IF ok THEN up
                   ELSE [up EXCEPT !.calls = Append(@, Failing(ReadStep))]
       IN  IF Propagates(ok)
           THEN up' = FailedAt(up, ReadStep)
           ELSE CASE n.res = "panic" ->
                       up' = [read EXCEPT !.pc = "panicked", !.result = "panic"]
                  [] n.res = "none" ->
                       up' = [read EXCEPT !.pc = "complete", !.pt = n.pt]
                  [] OTHER ->
                       up' = [read EXCEPT !.pc = "part", !.pt = n.pt, !.part = n.part]
  /\ UNCHANGED <<selectorVars, cacheVars, upSelector>>

\* after a part's upload (and its callback): push, and the next part number
PushCompleted(u) ==
  [u EXCEPT !.pc = "next",
            !.completedParts = Append(@, [number |-> u.partNumber, etag |-> u.etag]),
            !.partNumber = SaturatingAddU32(@, 1),
            !.part = NoPart]

\* api_caller.upload_part and the running total
UploadPart ==
  /\ up.pc = "part"
  /\ \E ok \in BOOLEAN :
       LET bytes == PartBytes(up.part, up.size)
           etag == IF ok THEN Len(up.calls) + 1 ELSE 0
           call == Returning(InSession(PartCall(up.partNumber, bytes), up.uploadId),
                             etag)
           sent == [up EXCEPT !.calls = Append(@, Outcome(call, ok)),
                              !.uploaded = SaturatingAddU64(@, PartUploaded(bytes, ok)),
                              !.etag = etag]
       IN  IF Propagates(ok)
           THEN up' = FailedAt(up, call)
           ELSE IF up.hasCallback
           THEN up' = [sent EXCEPT !.pc = "callback"]
           ELSE up' = PushCompleted(sent)
  /\ UNCHANGED <<selectorVars, cacheVars, upSelector>>

\* upload_progress_callback(&UploadProgressInfo { .. })?
ProgressCallback ==
  /\ up.pc = "callback"
  /\ \E ok \in BOOLEAN :
       LET call == InSession(ProgressCall(up.partNumber, up.uploaded), up.uploadId)
           called == [up EXCEPT !.calls = Append(@, Outcome(call, ok))]
       IN  IF Propagates(ok)
           THEN up' = FailedAt(up, call)
           ELSE up' = PushCompleted(called)
  /\ UNCHANGED <<selectorVars, cacheVars, upSelector>>

\* api_caller.complete_parts
CompleteParts ==
  /\ up.pc = "complete"
  /\ \E ok \in BOOLEAN :
       LET call == InSession(CompleteCall(up.completedParts), up.uploadId)
       IN  IF Propagates(ok)
           THEN up' = FailedAt(up, call)
           ELSE up' = [up EXCEPT !.pc = "done", !.result = "ok",
                                 !.calls = Append(@, Outcome(call, ok))]
  /\ UNCHANGED <<selectorVars, cacheVars, upSelector>>

\* --------------- successive next_part_reader calls on a seekable file
\* UploadSource::from(file).part(part_size)
PartitionData ==
  /\ up.pc = "start"
  /\ up.mode = "partition"
  /\ up' = [up EXCEPT !.pc = "next", !.pt = Partible]
  /\ UNCHANGED <<selectorVars, cacheVars, upSelector>>

\* UploadSource::from_reader(reader).part(part_size): a sequential source
PartitionStream ==
  /\ up.pc = "start"
  /\ up.mode = "stream"
  /\ up' = [up EXCEPT !.pc = "next", !.pt = Impartible(Content(up.size))]
  /\ UNCHANGED <<selectorVars, cacheVars, upSelector>>

\* one next_part_reader call; the part's bytes are read and recorded
PartitionNext ==
  /\ up.pc = "next"
  /\ up.mode \in {"partition", "stream"}
  /\ Len(up.calls) <= U64Max
  /\ LET n == NextPartReader(up.pt, up.size, up.partSize, up.build)
     IN  CASE n.res = "panic" ->
                up' = [up EXCEPT !.pc = "panicked", !.result = "panic"]
           [] n.res = "none" ->
                up' = [up EXCEPT !.pc = "exhausted", !.pt = n.pt]
           [] OTHER ->
                up' = [up EXCEPT !.pt = n.pt,
                                 !.calls = Append(@, PartCall(Len(up.calls) + 1,
                                                      PartBytes(n.part, up.size)))]
  /\ UNCHANGED <<selectorVars, cacheVars, upSelector>>

\* the selector variables of a system that resolves nothing
InitNoSelector ==
  /\ cfg = [numHosts |-> 1, tries |-> 0, predicate |-> "default",
            punishDuration |-> 1, errors |-> {}, bodies |-> {},
            maxPunishedHostsPercent |-> MaxPunishedHostsPercent]
  /\ now = 0
  /\ hostState = [h \in 1..1 |-> FreshHost]
  /\ hostIndex = 0
  /\ th = <<>>
  /\ attempts = 0

InitUpload ==
  /\ InitNoSelector
  /\ InitNoCache
  /\ q = NoQuery
  /\ \E mode \in {"file", "reader", "partition", "stream"},
        build \in {"debug", "release"},
        size \in 0..U64Max, partSize \in 0..U64Max, hasCallback \in BOOLEAN :
       /\ (mode \in {"partition", "stream"} => ~hasCallback)
       /\ up = NewUpload(mode, build, size, partSize, hasCallback)
  /\ upSelector = NoUpSelector

NextUpload ==
  \/ StartUploading
  \/ FormUpload
  \/ InitParts
  \/ NextPart
  \/ UploadPart
  \/ ProgressCallback
  \/ CompleteParts
  \/ PartitionData
  \/ PartitionStream
  \/ PartitionNext

SpecUpload == InitUpload /\ [][NextUpload]_vars

\* ------------------------------------------- the threads of the cache model
\* the threads that call query_for_up_urls
Callers == {1, 2}
\* the thread the n-th call spawns, if it spawns one
SpawnedBy(n) == Cardinality(Callers) + n

IdleCaller ==
  [kind |-> "caller", pc |-> "idle", key |-> KPlain, rr |-> RetryLocals,
   result |-> NoResult, modified |-> FALSE, bg |-> 0,
   found |-> FALSE, atStart |-> NoEntry, seen |-> NoEntry, checkedAt |-> 0,
   hitsStart |-> 0, hitsAcq |-> 0, hitsRet |-> 0, runsAt |-> 0, runsRet |-> 0,
   failsAt |-> 0, failsRet |-> 0, verAt |-> 0, seenVer |-> 0, with |-> {}]

Unspawned ==
  [kind |-> "spawned", pc |-> "free", role |-> "none", key |-> KPlain,
   rr |-> RetryLocals, modified |-> FALSE, cursor |-> 0,
   installed |-> NoEntry, installVer |-> 0]

InFlight(t) == th[t].pc \notin {"idle", "done"}

\* query_for_up_urls up to the call of query_for_domains:
\* Lazy::force(&CACHE_INIT) loads the file on the first call of the process
QueryForUpUrls(t) ==
  /\ th[t].kind = "caller"
  /\ ~InFlight(t)
  /\ stat.calls < MaxCalls
  /\ \E k \in cfg.keys :
       LET ld == IF boot.init THEN [loaded |-> FALSE, cache |-> cache]
                 ELSE LoadCache(disk, cache)
           ver == IF ld.loaded THEN [x \in KeyUniverse |-> stat.ver[x] + 1]
                  ELSE stat.ver
       IN  /\ cache' = ld.cache
           /\ boot' = IF boot.init THEN boot
                      ELSE [init |-> TRUE, loaded |-> ld.loaded,
                            src |-> IF ld.loaded THEN disk.src ELSE EmptyMap,
                            got |-> IF ld.loaded THEN ld.cache ELSE EmptyMap,
                            hits |-> stat.hits]
           /\ stat' = [stat EXCEPT !.calls = @ + 1, !.ver = ver]
           /\ th' = [th EXCEPT ![t] =
                [IdleCaller EXCEPT
                   !.pc = "entry", !.key = k, !.bg = SpawnedBy(stat.calls + 1),
                   !.runsAt = stat.runs[k], !.verAt = ver[k],
                   !.hitsStart = stat.hits[k], !.failsAt = stat.fails[k],
                   !.with = {th[u].bg : u \in {x \in Callers \ {t} :
                                                InFlight(x) /\ th[x].key = k}},
                   !.atStart = IF k \in DOMAIN ld.cache THEN ld.cache[k]
                               ELSE NoEntry]]
  /\ UNCHANGED <<cfg, now, hostState, hostIndex, attempts, lock, disk, q, uploadVars>>

\* CACHE_MAP.entry(cache_key): the shard is locked for writing; a vacant
\* entry starts the discovery inside or_try_insert_with
CacheEntry(t) ==
  /\ th[t].kind = "caller"
  /\ th[t].pc = "entry"
  /\ LET k == th[t].key
         s == ShardOf(k)
     IN  /\ EntryLockFree(s)
         /\ lock' = [lock EXCEPT !.shard[s] = t]
         /\ IF k \in DOMAIN cache
            THEN /\ th' = [th EXCEPT ![t].pc = "check", ![t].found = TRUE,
                                     ![t].seen = cache[k],
                                     ![t].hitsAcq = stat.hits[k]]
                 /\ UNCHANGED stat
            ELSE /\ th' = [th EXCEPT ![t].pc = "select", ![t].rr = RetryLocals,
                                     ![t].hitsAcq = stat.hits[k]]
                 /\ stat' = [stat EXCEPT !.runs[k] = @ + 1]
  /\ UNCHANGED <<cfg, now, hostState, hostIndex, attempts, cache, disk, boot, q,
                 uploadVars>>

\* or_insert_with: an entry is made whatever the closure returns
OrInsertWithDefault(c, k, r) ==
  Put(c, k, IF r.kind = "ok" THEN r.value ELSE [body |-> BodyZ, deadline |-> 0])
\* the map after or_try_insert_with on a vacant entry: Ok is inserted, Err is not
OrTryInsert(c, k, r) == IF r.kind = "ok" THEN Put(c, k, r.value) ELSE c

\* or_try_insert_with(..)?: the discovery's value is inserted, its error returned
OrTryInsertWith(t) ==
  /\ th[t].kind = "caller"
  /\ th[t].pc = "retried"
  /\ cache' = OrTryInsert(cache, th[t].key, th[t].rr.ret)
  /\ LET k == th[t].key
         r == th[t].rr.ret
     IN  IF r.kind = "ok"
         THEN /\ stat' = [stat EXCEPT !.ver[k] = @ + 1]
              /\ th' = [th EXCEPT ![t].pc = "check", ![t].modified = TRUE,
                                  ![t].seen = r.value]
              /\ UNCHANGED lock
         ELSE /\ lock' = [lock EXCEPT !.shard[ShardOf(k)] = 0]
              /\ stat' = [stat EXCEPT !.fails[k] = @ + 1]
              /\ th' = [th EXCEPT ![t].pc = "done", ![t].result = r,
                                  ![t].hitsRet = stat.hits[k],
                                  ![t].runsRet = stat.runs[k],
                                  ![t].failsRet = stat.fails[k] + 1]
  /\ UNCHANGED <<cfg, now, hostState, hostIndex, attempts, disk, boot, q, uploadVars>>

\* the expiry check, the spawn of the refresh or of the save, and the return
\* of the urls (the entry's lock is released when the function returns)
ReturnUpUrls(t) ==
  /\ th[t].kind = "caller"
  /\ th[t].pc = "check"
  /\ LET k == th[t].key
         v == cache[k]
         b == th[t].bg
         thread == IF IsExpired(v, now)
                   THEN [Unspawned EXCEPT !.pc = "refresh", !.role = "refresh",
                                          !.key = k]
                   ELSE IF th[t].modified
                   THEN [Unspawned EXCEPT !.pc = "save", !.role = "save", !.key = k]
                   ELSE Unspawned
     IN  /\ th' = [th EXCEPT ![t].pc = "done",
                             ![t].result = UpUrls(v.body, cfg.useHttps),
                             ![t].checkedAt = now,
                             ![t].seenVer = stat.ver[k],
                             ![t].hitsRet = stat.hits[k],
                             ![t].runsRet = stat.runs[k],
                             ![t].failsRet = stat.fails[k],
                             ![b] = thread]
         /\ lock' = [lock EXCEPT !.shard[ShardOf(k)] = 0]
  /\ UNCHANGED <<cfg, now, hostState, hostIndex, attempts, cache, disk, boot, stat,
                 q, uploadVars>>

\* the spawned refresh: CACHE_MAP.entry(cache_key).and_modify(..) locks the
\* shard, checks the expiry again and starts the discovery
RefreshAndModify(b) ==
  /\ th[b].kind = "spawned"
  /\ th[b].pc = "refresh"
  /\ LET k == th[b].key
         s == ShardOf(k)
     IN  /\ EntryLockFree(s)
         /\ IF k \in DOMAIN cache /\ IsExpired(cache[k], now)
            THEN /\ lock' = [lock EXCEPT !.shard[s] = b]
                 /\ th' = [th EXCEPT ![b].pc = "select", ![b].rr = RetryLocals]
                 /\ stat' = [stat EXCEPT !.runs[k] = @ + 1]
            ELSE /\ th' = [th EXCEPT ![b].pc = "finished"]
                 /\ UNCHANGED <<lock, stat>>
  /\ UNCHANGED <<cfg, now, hostState, hostIndex, attempts, cache, disk, boot, q,
                 uploadVars>>

\* if modified { let _ = save_cache(); }: where the refresh thread goes when
\* its discovery failed
AfterFailedRefreshSaves == "save"
AfterFailedRefresh == "finished"

\* the Entry that and_modify returns is a temporary of its statement: the
\* shard's lock is released before save_cache is called
EntryKeptThroughSave(l, s) == l
EntryDropped(l, s) == [l EXCEPT !.shard[s] = 0]

\* the refresh's discovery is over: the entry is replaced on success and
\* save_cache follows; a failure leaves the entry
RefreshModified(b) ==
  /\ th[b].kind = "spawned"
  /\ th[b].pc = "retried"
  /\ LET k == th[b].key
         r == th[b].rr.ret
     IN  /\ lock' = EntryDropped(lock, ShardOf(k))
         /\ IF r.kind = "ok"
            THEN /\ cache' = [cache EXCEPT ![k] = RefreshedValue(@, r.value)]
                 /\ stat' = [stat EXCEPT !.ver[k] = @ + 1]
                 /\ th' = [th EXCEPT ![b].pc = "save", ![b].modified = TRUE,
                                     ![b].installed = r.value,
                                     ![b].installVer = stat.ver[k] + 1]
            ELSE /\ th' = [th EXCEPT ![b].pc = AfterFailedRefresh]
                 /\ stat' = [stat EXCEPT !.fails[k] = @ + 1]
                 /\ UNCHANGED cache
  /\ UNCHANGED <<cfg, now, hostState, hostIndex, attempts, disk, boot, q, uploadVars>>

\* CACHE_FILE_LOCK.try_lock() succeeds
TryLockFileAlways == TRUE
TryLockFile == lock.file = 0

\* save_cache: CACHE_FILE_LOCK.try_lock(), and the file is opened truncated
SaveCacheOpen(b) ==
  /\ th[b].kind = "spawned"
  /\ th[b].pc = "save"
  /\ IF TryLockFile
     THEN /\ lock' = [lock EXCEPT !.file = b]
          /\ disk' = TruncatedFile
          /\ th' = [th EXCEPT ![b].pc = "write", ![b].cursor = 1]
     ELSE /\ th' = [th EXCEPT ![b].pc = "finished"]
          /\ UNCHANGED <<lock, disk>>
  /\ UNCHANGED <<cfg, now, hostState, hostIndex, attempts, cache, boot, stat, q,
                 uploadVars>>

\* save_cache: json_to_writer(&mut cache_file, &*CACHE_MAP), one shard at a
\* time under the shard's read lock; after the last shard the file is whole
\* and CACHE_FILE_LOCK is released
SaveCacheWrite(b) ==
  /\ th[b].kind = "spawned"
  /\ th[b].pc = "write"
  /\ LET s == th[b].cursor
         d == WriteShard(disk, s)
     IN  /\ lock.shard[s] = 0
         /\ IF s = NShards
            THEN /\ disk' = [d EXCEPT !.state = "complete"]
                 /\ lock' = [lock EXCEPT !.file = 0]
                 /\ th' = [th EXCEPT ![b].pc = "finished"]
            ELSE /\ disk' = d
                 /\ th' = [th EXCEPT ![b].cursor = s + 1]
                 /\ UNCHANGED lock
  /\ UNCHANGED <<cfg, now, hostState, hostIndex, attempts, cache, boot, stat, q,
                 uploadVars>>

CacheThreads == [t \in Callers \cup {SpawnedBy(n) : n \in 1..MaxCalls} |->
                   IF t \in Callers THEN IdleCaller ELSE Unspawned]

\* the process exits while no call is in progress and is started again: its
\* spawned threads end where they are, the memory is gone, the file stays
Restart ==
  /\ stat.restarts < MaxRestarts
  /\ boot.init
  /\ \A t \in Callers : ~InFlight(t)
  /\ th' = CacheThreads
  /\ lock' = NoLocks
  /\ cache' = EmptyMap
  /\ boot' = NoBoot
  /\ hostState' = [h \in 1..cfg.numHosts |-> FreshHost]
  /\ hostIndex' = 0
  /\ stat' = [stat EXCEPT !.restarts = @ + 1]
  /\ UNCHANGED <<cfg, now, attempts, disk, q, uploadVars>>

\* a file an earlier run of the process left: one entry, expiring at instant 0
SavedFile(k) ==
  LET v == [body |-> BodyZ, deadline |-> 0]
  IN  [state |-> "complete",
       entries |-> <<[token |-> SerializeKey(k), value |-> v]>>,
       src |-> Put(EmptyMap, k, v)]

\* the keys resolved, and the shard of each
KeyConfigs ==
  { [keys |-> {KPlain}, shardOf |-> [k \in KeyUniverse |-> 1]] }
  \cup { [keys |-> {KBucketColon, KAkColon}, shardOf |-> s] : s \in ShardAssignments }

InitCache ==
  /\ \E kc \in KeyConfigs, tries \in {1, 2} :
       cfg = [numHosts |-> 1, tries |-> tries, predicate |-> "default",
              punishDuration |-> 1, errors |-> {TransportError},
              bodies |-> {BodyB, BodyZ},
              maxPunishedHostsPercent |-> MaxPunishedHostsPercent,
              keys |-> kc.keys, shardOf |-> kc.shardOf, useHttps |-> (tries = 1)]
  /\ now = 0
  /\ hostState = [h \in 1..cfg.numHosts |-> FreshHost]
  /\ hostIndex = 0
  /\ th = CacheThreads
  /\ attempts = 0
  /\ up = NoUpload
  /\ upSelector = NoUpSelector
  /\ q = NoQuery
  /\ cache = EmptyMap
  /\ lock = NoLocks
  /\ disk \in {NoFile} \cup {SavedFile(k) : k \in cfg.keys \ {KAkColon}}
  /\ boot = NoBoot
  /\ stat = NoStat

NextCache ==
  \/ Tick
  \/ Restart
  \/ \E t \in DOMAIN th : QueryForUpUrls(t)
  \/ \E t \in DOMAIN th : CacheEntry(t)
  \/ \E t \in DOMAIN th : RetrySelect(t)
  \/ \E t \in DOMAIN th : RetryRespond(t)
  \/ \E t \in DOMAIN th : OrTryInsertWith(t)
  \/ \E t \in DOMAIN th : ReturnUpUrls(t)
  \/ \E t \in DOMAIN th : RefreshAndModify(t)
  \/ \E t \in DOMAIN th : RefreshModified(t)
  \/ \E t \in DOMAIN th : SaveCacheOpen(t)
  \/ \E t \in DOMAIN th : SaveCacheWrite(t)

SpecCache == InitCache /\ [][NextCache]_vars

\* a step of thread t once it was called or spawned: every thread of the
\* process is an operating system thread, which runs when it can
ThreadStep(t) ==
  \/ CacheEntry(t)
  \/ RetrySelect(t)
  \/ RetryRespond(t)
  \/ OrTryInsertWith(t)
  \/ ReturnUpUrls(t)
  \/ RefreshAndModify(t)
  \/ RefreshModified(t)
  \/ SaveCacheOpen(t)
  \/ SaveCacheWrite(t)

\* the same under fair scheduling of the threads; calls, the clock and the
\* restarts of the process happen or not
SpecCacheFair == SpecCache /\ \A t \in DOMAIN CacheThreads : WF_vars(ThreadStep(t))

\* ------------------------------------------------- query_for_up_urls alone
Alphabet == {"a", ":", "/"}
DomainsUpTo(n) == UNION {[1..m -> Alphabet] : m \in 0..n}

\* the response bodies whose first region holds the domain d
BodiesWith(d) ==
  { <<Region(1, <<d>>)>>,
    <<Region(1, <<d, DomUp>>), Region(2, <<DomAlt>>)>>,
    <<Region(2, <<DomFull, d>>), Region(1, <<DomUp, DomAlt>>)>> }

\* query_for_up_urls applied to the response body query_for_domains returned
NormalizeUpUrls ==
  /\ q.pc = "ready"
  /\ q' = [q EXCEPT !.pc = "done", !.result = UpUrls(q.body, q.useHttps)]
  /\ UNCHANGED <<selectorVars, uploadVars, cache, lock, disk, boot, stat>>

InitUrls ==
  /\ InitNoSelector
  /\ InitNoCache
  /\ up = NoUpload
  /\ upSelector = NoUpSelector
  /\ \E d \in DomainsUpTo(MaxDomainLen), useHttps \in BOOLEAN :
       \E body \in BodiesWith(d) \cup {BodyNoRegion} :
         q = [pc |-> "ready", body |-> body, useHttps |-> useHttps,
              result |-> NoResult]

NextUrls == NormalizeUpUrls

SpecUrls == InitUrls /\ [][NextUrls]_vars

\* ------------------------------------------ select_host on its own
\* hosts of the selector
MaxSelectHosts == 3
\* every value max_punished_hosts_percent is meant to take
Percentages == 0..100

NotSelected == [host |-> 0, index |-> 0, timeoutPower |-> 0, skipped |-> 0]
\* a thread that calls select_host
Selecting ==
  [kind |-> "selector", pc |-> "ready", selected |-> NotSelected,
   punishedAtCall |-> {}, indexAtCall |-> 0]

PunishedHosts == {h \in 1..cfg.numHosts : IsPunished(h, hostState, now)}

\* host_selector.select_host()
SelectHostCall(t) ==
  /\ th[t].kind = "selector"
  /\ th[t].pc = "ready"
  /\ LET s == SelectHost
     IN  /\ hostIndex' = s.index
         /\ th' = [th EXCEPT ![t].pc = "selected", ![t].selected = s,
                             ![t].punishedAtCall = PunishedHosts,
                             ![t].indexAtCall = hostIndex]
  /\ UNCHANGED <<cfg, now, hostState, attempts, uploadVars, cacheVars>>

\* a host that is punished until `t`
PunishedUntil(t) == [FreshHost EXCEPT !.punishedUntil = t, !.punishedTimes = 1]

InitSelect ==
  /\ \E n \in 1..MaxSelectHosts, p \in Percentages :
       cfg = [numHosts |-> n, tries |-> 0, predicate |-> "default",
              punishDuration |-> 1, errors |-> {}, bodies |-> {},
              maxPunishedHostsPercent |-> p]
  /\ now = 0
  /\ hostState \in [1..cfg.numHosts -> {FreshHost} \cup {PunishedUntil(t) : t \in 1..(MaxTime + 1)}]
  /\ hostIndex \in 0..(cfg.numHosts - 1)
  /\ th = [t \in {1} |-> Selecting]
  /\ attempts = 0
  /\ up = NoUpload
  /\ upSelector = NoUpSelector
  /\ InitNoCache
  /\ q = NoQuery

NextSelect ==
  \/ Tick
  \/ \E t \in DOMAIN th : SelectHostCall(t)

SpecSelect == InitSelect /\ [][NextSelect]_vars

\* ------------------------------------- the upload side's host list refresh
\* refreshes of the host list, calls of select_host on it
MaxRefreshes == 2
MaxSelects == 2

UpUrlOne == <<"h", "t", "t", "p", ":", "/", "/", "u", "1">>
UpUrlTwo == <<"h", "t", "t", "p", ":", "/", "/", "u", "2">>
UcUrl == <<"h", "t", "t", "p", ":", "/", "/", "u", "c">>
\* a response body whose first region lists no domain
BodyNoDomain == <<Region(1, <<>>), Region(1, <<DomUp>>)>>

\* what query_for_domains gives the update callback: a response body (of a new
\* entry, or of a cached one, which may come from the file) or its error
DomainResults ==
  {Ok(b) : b \in {BodyA, BodyB, BodyNoDomain, BodyNoRegion}} \cup {Err(TransportError)}

\* query_for_up_urls: query_for_domains(ak, bucket)? and the map over the
\* first region's domains
QueryForUpUrlsOf(d, useHttps) ==
  IF d.kind = "ok" THEN UpUrls(d.value, useHttps) ELSE d

\* the update callback of the upload selector
UpdateCallback(ucUrls, d, useHttps) ==
  IF ucUrls # <<>> THEN QueryForUpUrlsOf(d, useHttps) ELSE Ok(<<>>)

\* the refresh's use of the callback's result: a success replaces the
\* snapshot, anything else keeps it
SetHosts(hosts, r) == IF r.kind = "ok" THEN r.value ELSE hosts

\* UploaderBuilder::build: HostSelector::builder(self.up_urls)
BuiltUpSelector(upUrls, ucUrls, useHttps) ==
  [pc |-> "built", upUrls |-> upUrls, ucUrls |-> ucUrls, useHttps |-> useHttps,
   hosts |-> upUrls, refreshes |-> 0, last |-> NoResult, before |-> upUrls,
   selects |-> 0, selectedFrom |-> upUrls]

\* one background refresh of the upload selector: the callback is called and
\* its result handled
UpdateHosts ==
  /\ upSelector.pc = "built"
  /\ upSelector.refreshes < MaxRefreshes
  /\ \E d \in DomainResults :
       LET r == UpdateCallback(upSelector.ucUrls, d, upSelector.useHttps)
       IN  upSelector' = [upSelector EXCEPT
                            !.hosts = SetHosts(@, r),
                            !.before = upSelector.hosts,
                            !.last = r,
                            !.refreshes = @ + 1]
  /\ UNCHANGED <<selectorVars, up, cacheVars>>

\* select_host is called on the upload selector
UpSelectHost ==
  /\ upSelector.pc = "built"
  /\ upSelector.selects < MaxSelects
  /\ upSelector' = [upSelector EXCEPT !.selects = @ + 1,
                                      !.selectedFrom = upSelector.hosts]
  /\ UNCHANGED <<selectorVars, up, cacheVars>>

InitHosts ==
  /\ InitNoSelector
  /\ InitNoCache
  /\ q = NoQuery
  /\ up = NoUpload
  /\ \E upUrls \in {<<UpUrlOne>>, <<UpUrlOne, UpUrlTwo>>},
        ucUrls \in {<<>>, <<UcUrl>>}, useHttps \in BOOLEAN :
       upSelector = BuiltUpSelector(upUrls, ucUrls, useHttps)

NextHosts ==
  \/ UpdateHosts
  \/ UpSelectHost

SpecHosts == InitHosts /\ [][NextHosts]_vars

\* ----------------------------------------------------- RetryRunner claims
RetryOver(t) == th[t].pc \in {"retried", "done"}

\* C1: with tries = N >= 1, a run all of whose attempts fail with a punishable
\* error (punish returned true) makes exactly N attempts, punishes the failing
\* host once per attempt, and returns the error of the N-th attempt.
C1_ExhaustedRunReturnsLastError ==
  \A t \in DOMAIN th :
    LET log == th[t].rr.log
    IN  ( /\ RetryOver(t)
          /\ cfg.tries >= 1
          /\ \A k \in 1..Len(log) : log[k].res = "err" /\ log[k].punished )
        => /\ Len(log) = cfg.tries
           /\ th[t].rr.ret = Err(log[cfg.tries].err)
           /\ \A k \in 1..Len(log) :
                /\ log[k].timesDelta = 1
                /\ log[k].untilDelta = cfg.punishDuration

C1_Witness ==
  \E t \in DOMAIN th :
    LET log == th[t].rr.log
    IN  /\ th[t].pc = "retried"
        /\ cfg.tries = 3
        /\ Len(log) = 3
        /\ \A k \in 1..3 : log[k].res = "err" /\ log[k].punished
        /\ log[1].err # log[3].err
        /\ log[2].err # log[3].err
        /\ th[t].rr.ret = Err(log[3].err)

\* C2: a run stops at the first attempt whose failure is not punishable: that
\* attempt is the last one of the run, its error is the run's result, and the
\* host's punishment record is left as it was; a first such failure gives one
\* attempt whatever tries is.
C2_NonPunishableFailureEndsRun ==
  \A t \in DOMAIN th :
    LET log == th[t].rr.log
    IN  \A k \in 1..Len(log) :
          (log[k].res = "err" /\ ~log[k].punished)
          => /\ k = Len(log)
             /\ RetryOver(t)
             /\ th[t].rr.i = k
             /\ th[t].rr.ret = Err(log[k].err)
             /\ log[k].timesDelta = 0

C2_Witness ==
  \E t \in DOMAIN th :
    LET log == th[t].rr.log
    IN  /\ th[t].pc = "retried"
        /\ cfg.tries = 3
        /\ Len(log) = 1
        /\ log[1].res = "err"
        /\ ~log[1].punished
        /\ th[t].rr.ret = Err(log[1].err)

\* C3: a successful attempt rewards the host it used (timeoutPower 0 and not
\* punished afterwards, whatever its record was), its value is the run's
\* result, it is the run's last attempt, and a run never makes more than
\* tries attempts.
C3_SuccessRewardsAndReturns ==
  \A t \in DOMAIN th :
    LET log == th[t].rr.log
    IN  /\ Len(log) <= cfg.tries
        /\ th[t].rr.i <= cfg.tries
        /\ \A k \in 1..Len(log) :
             log[k].res = "ok"
             => /\ k = Len(log)
                /\ RetryOver(t)
                /\ th[t].rr.ret.kind = "ok"
                /\ th[t].rr.ret.value.body = log[k].body
                /\ log[k].powerAfter = 0
                /\ log[k].timesAfter = 0
                /\ log[k].untilDelta <= 0

C3_Witness ==
  \E t \in DOMAIN th :
    LET log == th[t].rr.log
    IN  /\ th[t].pc = "retried"
        /\ cfg.numHosts = 2
        /\ Len(log) >= 2
        /\ log[1].res = "err"
        /\ log[Len(log)].res = "ok"
        /\ log[Len(log)].wasPunished
        /\ th[t].rr.ret.kind = "ok"

\* ------------------------------------------------ resolution cache claims
IsCaller(t) == th[t].kind = "caller"
Returned(t) == IsCaller(t) /\ th[t].pc = "done"
InDiscovery(t) == th[t].kind # "runner" /\ th[t].pc \in {"select", "call", "retried"}

\* the entry a returned call inspected had not expired / had expired then
SawUnexpired(t) == th[t].seen # NoEntry /\ th[t].seen.deadline >= th[t].checkedAt
SawExpired(t) == th[t].seen # NoEntry /\ th[t].seen.deadline < th[t].checkedAt

\* the domains of a body's first region as urls, stated on the characters
HasSchemeSeparator(d) ==
  \E j \in 1..(Len(d) - 2) : d[j] = ":" /\ d[j + 1] = "/" /\ d[j + 2] = "/"
UrlOf(d, useHttps) ==
  IF HasSchemeSeparator(d) THEN d
  ELSE IF useHttps THEN <<"h", "t", "t", "p", "s", ":", "/", "/">> \o d
  ELSE <<"h", "t", "t", "p", ":", "/", "/">> \o d
IsUrlsOf(result, body, useHttps) ==
  /\ result.kind = "ok"
  /\ Len(result.value) = Len(body[1].domains)
  /\ \A i \in 1..Len(body[1].domains) :
       result.value[i] = UrlOf(body[1].domains[i], useHttps)

\* t and u are two returned calls for one key that had no entry when each
\* was made, u made while t was in progress
ConcurrentUncached(t, u) ==
  /\ t # u
  /\ Returned(t)
  /\ Returned(u)
  /\ th[t].key = th[u].key
  /\ th[t].atStart = NoEntry
  /\ th[u].atStart = NoEntry
  /\ th[t].bg \in th[u].with

\* the discovery runs for the key of call t since t was made
RunsSince(t) == stat.runs[th[t].key] - th[t].runsAt

\* the discovery runs for the key, and those that failed, from when call t
\* was made to when the later of the calls t and u returned
RunsDuring(t, u) == Max2(th[t].runsRet, th[u].runsRet) - th[t].runsAt
FailsDuring(t, u) == Max2(th[t].failsRet, th[u].failsRet) - th[t].failsAt

\* C4 as stated: two concurrent callers of one uncached key cause exactly one
\* discovery run and return the same result, under every interleaving.
C4_SingleFlightAlways ==
  \A t, u \in DOMAIN th :
    ConcurrentUncached(t, u)
    => /\ RunsSince(t) = 1
       /\ th[t].result = th[u].result

\* C4: at no time are two discovery runs for one key in progress; when two
\* concurrent callers of one uncached key both return urls, each found the
\* entry unexpired when it inspected it, and no discovery run for the key
\* failed while they were in progress, exactly one discovery run was made for
\* the key in that time and both return the same urls.
C4_SingleFlight ==
  /\ \A t, u \in DOMAIN th :
       (t # u /\ InDiscovery(t) /\ InDiscovery(u)) => th[t].key # th[u].key
  /\ \A t, u \in DOMAIN th :
       ( /\ ConcurrentUncached(t, u)
         /\ th[t].result.kind = "ok"
         /\ th[u].result.kind = "ok"
         /\ SawUnexpired(t)
         /\ SawUnexpired(u)
         /\ FailsDuring(t, u) = 0 )
       => /\ RunsDuring(t, u) = 1
          /\ th[t].result = th[u].result

C4_Witness ==
  \E t, u \in DOMAIN th :
    /\ ConcurrentUncached(t, u)
    /\ th[t].result.kind = "ok"
    /\ th[t].result = th[u].result
    /\ SawUnexpired(t)
    /\ SawUnexpired(u)
    /\ th[t].rr.i >= 1
    /\ th[u].found
    /\ FailsDuring(t, u) = 0
    /\ RunsDuring(t, u) = 1

\* C5: a call for a key whose entry exists when the call is made, is still
\* that entry and is unexpired when the call inspects it, returns the urls of
\* that entry, makes no discovery attempt, spawns nothing, and the key's
\* upstream hits are the same when it returns as when it was made.
C5_UnexpiredEntryIsServed ==
  \A t \in DOMAIN th :
    ( /\ Returned(t)
      /\ th[t].atStart # NoEntry
      /\ th[t].seen = th[t].atStart
      /\ SawUnexpired(t) )
    => /\ IsUrlsOf(th[t].result, th[t].atStart.body, cfg.useHttps)
       /\ th[t].rr.i = 0
       /\ th[th[t].bg].pc = "free"
       /\ th[t].hitsRet = th[t].hitsStart

C5_Witness ==
  \E t \in DOMAIN th :
    /\ Returned(t)
    /\ th[t].atStart # NoEntry
    /\ th[t].seen = th[t].atStart
    /\ th[t].seen.deadline = th[t].checkedAt
    /\ th[t].hitsStart >= 1
    /\ th[t].hitsRet = th[t].hitsStart
    /\ th[t].result.kind = "ok"

\* a returned call that found an entry and found it expired
StaleCall(t) == Returned(t) /\ th[t].found /\ SawExpired(t)
\* the refresh thread b is past its and_modify
RefreshOver(b) ==
  /\ th[b].kind = "spawned"
  /\ th[b].role = "refresh"
  /\ th[b].pc \in {"save", "write", "finished"}

C8_SaveLoadRoundTrip ==
  boot.loaded
  => /\ boot.got = boot.src
     /\ \A t \in DOMAIN th :
          ( /\ Returned(t)
            /\ th[t].key \in DOMAIN boot.src
            /\ boot.src[th[t].key].deadline >= now )
          => /\ IsUrlsOf(th[t].result, boot.src[th[t].key].body, cfg.useHttps)
             /\ stat.hits[th[t].key] = boot.hits[th[t].key]

\* the same where no access key contains the separator
SaveLoadRoundTripPlainKeys ==
  (\A k \in cfg.keys : \A i \in 1..Len(k.ak) : k.ak[i] # ":")
  => C8_SaveLoadRoundTrip

SaveLoadRoundTripWitness ==
  /\ stat.restarts = 1
  /\ boot.loaded
  /\ boot.src # EmptyMap
  /\ \E t \in DOMAIN th :
       /\ Returned(t)
       /\ th[t].key \in DOMAIN boot.src
       /\ boot.src[th[t].key].body = BodyB
       /\ th[t].result.kind = "ok"

\* ----------------------------------------------------- url normalisation
\* C7: query_for_up_urls returns one url per domain of the first region of
\* the response body, in the body's order: a domain containing "://" as it
\* is, any other domain d as "https://" + d when use_https is set and as
\* "http://" + d when it is not.
C7_UrlsOfFirstRegion ==
  (q.pc = "done" /\ q.body # <<>>) => IsUrlsOf(q.result, q.body, q.useHttps)

C7_Witness ==
  /\ q.pc = "done"
  /\ Len(q.body) = 2
  /\ q.body[1].domains = <<DomFull, <<":", "/", "a", "/">>>>
  /\ ~q.useHttps
  /\ q.result = Ok(<<DomFull, <<"h", "t", "t", "p", ":", "/", "/", ":", "/", "a", "/">>>>)

\* ------------------------------------------- partitioner and path claims
CeilDiv(a, b) == (a + b - 1) \div b
PartCalls == SelectSeq(up.calls, LAMBDA c : c.op = "part")
FormCalls == SelectSeq(up.calls, LAMBDA c : c.op = "form")
MultiPartCalls == SelectSeq(up.calls, LAMBDA c : c.op \in {"init", "part", "complete"})

\* part i of a source of `size` bytes cut at `partSize`
ExpectedPart(i, size, partSize) ==
  SubSeq(Content(size), (i - 1) * partSize + 1, Min2(i * partSize, size))

PartsAreExact ==
  LET k == CeilDiv(up.size, up.partSize)
  IN  /\ up.pc # "panicked"
      /\ Len(up.calls) <= k
      /\ (up.pc = "exhausted" => Len(up.calls) = k)
      /\ \A i \in 1..Len(up.calls) :
           up.calls[i].bytes = ExpectedPart(i, up.size, up.partSize)

PartibleExactBelowSignedMax ==
  (up.pc # "none" /\ up.mode = "partition" /\ up.partSize >= 1
     /\ up.size < 2 ^ (U64Bits - 1))
  => PartsAreExact

PartibleExactWitness ==
  /\ up.mode = "partition"
  /\ up.pc = "exhausted"
  /\ up.size = 7
  /\ up.partSize = 3
  /\ Len(up.calls) = 3
  /\ up.calls[3].bytes = <<7>>

\* C10: a source of at most partSize bytes takes the single-shot path (no
\* init, upload-part or complete call), a longer one the multi-part path, and
\* a source of partSize + 1 bytes is uploaded as 2 parts of partSize bytes
\* and 1 byte; for sources of known and of unknown size.
C10_PathDecision ==
  (up.pc \notin {"none", "start"} /\ up.mode \in {"file", "reader"})
  => /\ up.pc # "panicked"
     /\ up.size <= up.partSize
          => /\ up.pc \in {"form", "done", "failed"}
             /\ MultiPartCalls = <<>>
     /\ up.size > up.partSize
          => /\ up.pc # "form"
             /\ FormCalls = <<>>
     /\ up.size = up.partSize + 1
          => /\ Len(PartCalls) <= 2
             /\ up.pc = "done"
                  => /\ Len(PartCalls) = 2
                     /\ Len(PartCalls[1].bytes) = up.partSize
                     /\ Len(PartCalls[2].bytes) = 1

\* the path decision for part sizes from 1 to below u64::MAX, sizes below 2^63
PathDecisionForOrdinarySizes ==
  (up.partSize >= 1 /\ up.partSize < U64Max /\ up.size < 2 ^ (U64Bits - 1))
  => C10_PathDecision

PathDecisionWitness ==
  /\ up.mode = "reader"
  /\ up.pc = "done"
  /\ up.partSize = 3
  /\ up.size = 4
  /\ Len(PartCalls) = 2
  /\ PartCalls[2].bytes = <<4>>

\* ------------------------------------------------- multi-part upload claims
Steps(ops) == SelectSeq(up.calls, LAMBDA c : c.op \in ops)
OkPartCalls == SelectSeq(up.calls, LAMBDA c : c.op = "part" /\ c.ok)

RECURSIVE ConcatBytes(_)
ConcatBytes(calls) ==
  IF calls = <<>> THEN <<>> ELSE Head(calls).bytes \o ConcatBytes(Tail(calls))

IsPrefix(a, b) == Len(a) <= Len(b) /\ a = SubSeq(b, 1, Len(a))

\* the bytes an upload has sent in calls that succeeded
UploadedBytes ==
  ConcatBytes(SelectSeq(up.calls, LAMBDA c : c.op \in {"form", "part"} /\ c.ok))

\* C11: for a source of unknown size the bytes uploaded are the bytes of the
\* stream: the parts sent so far are a prefix of the stream, in order, and an
\* upload that returns Ok has sent every byte of the stream exactly once.
C11_UnknownSizeUploadsTheStream ==
  (up.pc # "none" /\ up.mode = "reader")
  => /\ up.pc # "panicked"
     /\ IsPrefix(UploadedBytes, Content(up.size))
     /\ up.pc = "done" => UploadedBytes = Content(up.size)

\* the same for part sizes from 1 to below u64::MAX
UnknownSizeUploadsTheStreamForOrdinarySizes ==
  (up.partSize >= 1 /\ up.partSize < U64Max) => C11_UnknownSizeUploadsTheStream

UnknownSizeUploadsTheStreamWitness ==
  /\ up.mode = "reader"
  /\ up.pc = "done"
  /\ up.partSize = 2
  /\ up.size = 5
  /\ Len(OkPartCalls) = 3
  /\ UploadedBytes = <<1, 2, 3, 4, 5>>

\* the remote calls of the multi-part path, in the order they were made
RemoteCalls == Steps({"init", "part", "complete"})
\* next_part_reader has returned None and would return None again
Drained == NextPartReader(up.pt, up.size, up.partSize, up.build).res = "none"

\* C12: the remote calls of a multi-part upload come in the order init, parts,
\* complete: the first call is the one init call and it succeeded before any
\* part was uploaded, a call is made only after the call before it succeeded,
\* a completion call is the last call and is made only once the partitioner
\* has no part left, every call carries the session init returned, and the
\* upload returns Ok only after a successful completion call.
C12_InitThenPartsThenComplete ==
  (up.pc # "none" /\ up.mode \in {"file", "reader"})
  => LET r == RemoteCalls
     IN  /\ \A i \in 1..Len(r) :
               /\ (r[i].op = "init") <=> (i = 1)
               /\ i < Len(r) => r[i].ok
               /\ r[i].op = "complete" => (i = Len(r) /\ Drained)
               /\ r[i].ok => r[i].id = r[1].id
         /\ up.pc \in {"next", "part", "callback", "complete"} =>
               (r # <<>> /\ \A i \in 1..Len(r) : r[i].ok /\ r[i].op # "complete")
         /\ (up.pc = "done" /\ FormCalls = <<>>) =>
               /\ r # <<>>
               /\ r[Len(r)].op = "complete"
               /\ r[Len(r)].ok
               /\ up.result = "ok"

C12_Witness ==
  /\ up.mode = "file"
  /\ up.pc = "done"
  /\ up.size = 5
  /\ up.partSize = 2
  /\ Len(RemoteCalls) = 5
  /\ RemoteCalls[1].op = "init"
  /\ \A i \in 2..4 : RemoteCalls[i].op = "part" /\ RemoteCalls[i].number = i - 1
  /\ RemoteCalls[5].op = "complete"

\* C13: in a multi-part upload the first failure of a step (the init call,
\* a read of the next part, an upload-part call, the progress callback, the
\* completion call) ends the upload: the failing step is the last step ever
\* made, whatever was uploaded before, and start returns its failure.
C13_FirstFailureIsTerminal ==
  (up.pc # "none" /\ up.mode \in {"file", "reader"})
  => /\ \A i \in 1..Len(up.calls) :
          ~up.calls[i].ok => /\ i = Len(up.calls)
                             /\ up.pc = "failed"
                             /\ up.result = "err"
                             /\ up.error = up.calls[i].op
     /\ up.pc = "failed" => (up.calls # <<>> /\ ~up.calls[Len(up.calls)].ok)
     /\ up.result = "ok" => \A i \in 1..Len(up.calls) : up.calls[i].ok

C13_Witness ==
  /\ up.mode = "file"
  /\ up.pc = "failed"
  /\ up.hasCallback
  /\ Len(OkPartCalls) = 2
  /\ Len(up.completedParts) = 1
  /\ up.error = "progress"
  /\ ~up.calls[Len(up.calls)].ok
  /\ Steps({"complete"}) = <<>>

ProgressCalls == Steps({"progress"})

RECURSIVE SumLen(_, _)
SumLen(calls, n) == IF n = 0 THEN 0 ELSE SumLen(calls, n - 1) + Len(calls[n].bytes)

\* the callback follows each successful part at once and nothing else, and its
\* n-th invocation reports the session, and the saturating total of parts 1..n
CallbackAfterEachPart ==
  /\ \A i \in 1..Len(up.calls) :
       /\ (up.calls[i].op = "part" /\ up.calls[i].ok /\ i < Len(up.calls))
            => up.calls[i + 1].op = "progress"
       /\ up.calls[i].op = "progress"
            => (i > 1 /\ up.calls[i - 1].op = "part" /\ up.calls[i - 1].ok
                /\ up.calls[i - 1].number = up.calls[i].number)
  /\ \A n \in 1..Len(ProgressCalls) :
       /\ ProgressCalls[n].id = RemoteCalls[1].id
       /\ ProgressCalls[n].uploaded = Min2(SumLen(OkPartCalls, n), U64Max)
       /\ n > 1 => ProgressCalls[n - 1].uploaded <= ProgressCalls[n].uploaded

\* C14: with a progress callback, the callback is invoked once after each
\* successfully uploaded part and for no other part, its n-th invocation
\* carries part number n (1, 2, 3, ... ascending), the session id init
\* returned and the saturating sum of the byte lengths of parts 1..n.
C14_ProgressInPartOrder ==
  (up.pc # "none" /\ up.mode \in {"file", "reader"} /\ up.hasCallback)
  => /\ CallbackAfterEachPart
     /\ \A n \in 1..Len(ProgressCalls) : ProgressCalls[n].number = n

\* the same while the part number fits u32
ProgressInPartOrderBelowU32Max ==
  (up.pc # "none" /\ up.mode \in {"file", "reader"} /\ up.hasCallback)
  => /\ CallbackAfterEachPart
     /\ \A n \in 1..Min2(Len(ProgressCalls), U32Max) : ProgressCalls[n].number = n

ProgressInPartOrderWitness ==
  /\ up.hasCallback
  /\ up.pc = "done"
  /\ up.size = 5
  /\ up.partSize = 2
  /\ Len(ProgressCalls) = 3
  /\ ProgressCalls[3].number = 3
  /\ ProgressCalls[3].uploaded = 5

\* the running total saturates
ProgressSaturatesWitness ==
  /\ up.hasCallback
  /\ Len(ProgressCalls) >= 2
  /\ SumLen(OkPartCalls, Len(ProgressCalls)) > U64Max
  /\ ProgressCalls[Len(ProgressCalls)].uploaded = U64Max

CompleteCalls == Steps({"complete"})

\* the parts list of the completion call has one entry per uploaded part, in
\* upload order, with the etag the service returned for that part
PartsListOfUploadedParts(parts) ==
  /\ Len(parts) = Len(OkPartCalls)
  /\ \A i \in 1..Len(parts) :
       /\ parts[i].etag = OkPartCalls[i].etag
       /\ parts[i].number = OkPartCalls[i].number

\* C15: the parts list of the completion call holds one (partNumber, etag)
\* entry per uploaded part, in upload order, with the etag returned for the
\* part and the part numbers 1, 2, ..., k, for every number of parts k.
C15_CompletedPartsAscending ==
  \A c \in 1..Len(CompleteCalls) :
    LET parts == CompleteCalls[c].parts
    IN  /\ PartsListOfUploadedParts(parts)
        /\ \A i \in 1..Len(parts) : parts[i].number = i

\* the same for at most u32::MAX parts
CompletedPartsAscendingBelowU32Max ==
  \A c \in 1..Len(CompleteCalls) :
    LET parts == CompleteCalls[c].parts
    IN  /\ PartsListOfUploadedParts(parts)
        /\ Len(parts) <= U32Max => \A i \in 1..Len(parts) : parts[i].number = i

CompletedPartsAscendingWitness ==
  /\ up.pc = "done"
  /\ up.size = 7
  /\ up.partSize = 1
  /\ Len(CompleteCalls) = 1
  /\ Len(CompleteCalls[1].parts) = 7
  /\ CompleteCalls[1].parts[7].number = 7

\* ------------------------------------------------ error classification claims
\* attempt k of the run of thread t failed, was not punished, and ended the run
\* with its error after no further attempt
EndsRunUnpunished(t, k) ==
  LET log == th[t].rr.log
  IN  /\ ~log[k].punished
      /\ log[k].timesDelta = 0
      /\ k = Len(log)
      /\ RetryOver(t)
      /\ th[t].rr.ret = Err(log[k].err)

\* attempt k failed, its host was punished, and the run went on to attempt
\* k + 1 if k < tries
PunishedAndRetried(t, k) ==
  LET log == th[t].rr.log
  IN  /\ log[k].punished
      /\ log[k].timesDelta = 1
      /\ log[k].untilDelta = cfg.punishDuration
      /\ (k < cfg.tries /\ k = Len(log)) => th[t].pc \in {"select", "call"}
      /\ (k = cfg.tries /\ RetryOver(t)) => th[t].rr.ret = Err(log[k].err)

FailedWith(t, k, kinds) ==
  th[t].rr.log[k].res = "err" /\ th[t].rr.log[k].err.kind \in kinds

\* C16: on the upload side a status error with a code in 400..499 other than
\* 406 is not punished and ends the run after that attempt; code 406 is
\* punished and the run goes on to the next attempt.
C16_ClientErrorsEndRunExcept406 ==
  cfg.predicate = "upload" =>
    \A t \in DOMAIN th : \A k \in 1..Len(th[t].rr.log) :
      LET code == th[t].rr.log[k].err.code
      IN  (FailedWith(t, k, {"status"}) /\ IsClientErrorClass(code))
          => IF code = 406 THEN PunishedAndRetried(t, k)
                           ELSE EndsRunUnpunished(t, k)

C16_Witness ==
  \E t \in DOMAIN th :
    LET log == th[t].rr.log
    IN  /\ cfg.predicate = "upload"
        /\ cfg.tries = 3
        /\ th[t].pc = "retried"
        /\ Len(log) = 2
        /\ log[1].err = StatusError(406)
        /\ log[1].punished
        /\ log[2].err = StatusError(404)
        /\ ~log[2].punished
        /\ th[t].rr.ret = Err(StatusError(404))

\* C17 as stated: on the upload side a status error with one of the listed codes (501,
\* 573, 608, 612, 614, 616, 619, 630, 631, 640, 701) is punished and the run
\* goes on to the next attempt while attempts remain.
C17_ListedCodesArePunished ==
  cfg.predicate = "upload" =>
    \A t \in DOMAIN th : \A k \in 1..Len(th[t].rr.log) :
      (FailedWith(t, k, {"status"}) /\ th[t].rr.log[k].err.code \in ListedStatusCodes)
      => PunishedAndRetried(t, k)

\* C17: on the upload side a status error with one of the listed codes is not
\* punished (is_client_error_status counts the listed codes as client
\* errors) and the run ends with that error after the attempt, whatever
\* attempts remain; every other code outside 400..499 is punished and retried.
C17_ListedCodesEndRunUnpunished ==
  cfg.predicate = "upload" =>
    \A t \in DOMAIN th : \A k \in 1..Len(th[t].rr.log) :
      LET code == th[t].rr.log[k].err.code
      IN  (FailedWith(t, k, {"status"}) /\ ~IsClientErrorClass(code))
          => IF code \in ListedStatusCodes THEN EndsRunUnpunished(t, k)
                                          ELSE PunishedAndRetried(t, k)

C17_Witness ==
  \E t \in DOMAIN th :
    LET log == th[t].rr.log
    IN  /\ cfg.predicate = "upload"
        /\ cfg.tries = 3
        /\ th[t].pc = "retried"
        /\ Len(log) = 2
        /\ log[1].err = StatusError(500)
        /\ log[1].punished
        /\ log[2].err = StatusError(573)
        /\ ~log[2].punished
        /\ th[t].rr.ret = Err(StatusError(573))

\* C18 as stated: a response-decode error of an attempt, on the upload side
\* and on the discovery side, is not punished and ends the run at once with
\* that error.
C18_DecodeErrorEndsRun ==
  \A t \in DOMAIN th : \A k \in 1..Len(th[t].rr.log) :
    FailedWith(t, k, {"decode"}) => EndsRunUnpunished(t, k)

\* C18: a response-decode error of an attempt is punished like a transport
\* error, on the upload side (the predicate's last arm) and on the discovery
\* side (the default predicate): the host is punished and the run goes on to
\* the next attempt while attempts remain; the error is the run's result only
\* when it is the error of the last of the tries attempts.
C18_DecodeErrorIsPunishedAndRetried ==
  \A t \in DOMAIN th : \A k \in 1..Len(th[t].rr.log) :
    FailedWith(t, k, {"decode"})
    => /\ PunishedAndRetried(t, k)
       /\ (RetryOver(t) /\ th[t].rr.ret = Err(DecodeError)) => Len(th[t].rr.log) = cfg.tries

C18_Witness ==
  \E t \in DOMAIN th :
    LET log == th[t].rr.log
    IN  /\ cfg.predicate = "upload"
        /\ cfg.tries = 3
        /\ cfg.numHosts = 2
        /\ th[t].pc = "retried"
        /\ Len(log) = 2
        /\ log[1].err = DecodeError
        /\ log[1].punished
        /\ log[2].res = "ok"
        /\ log[2].host # log[1].host

\* the same on the discovery side
DecodeErrorRetriedByDiscoveryWitness ==
  \E t \in DOMAIN th :
    LET log == th[t].rr.log
    IN  /\ cfg.predicate = "default"
        /\ cfg.tries = 2
        /\ th[t].pc = "retried"
        /\ Len(log) = 2
        /\ log[1].err = DecodeError
        /\ log[2].err = DecodeError
        /\ th[t].rr.ret = Err(DecodeError)

\* C19: a transport or timeout failure of an attempt is punished and the run
\* goes on while attempts remain; a timeout also raises the host's
\* timeoutPower one step above the power the attempt used (up to the cap),
\* and a failure that is not a timeout leaves timeoutPower as it was.
C19_TransportAndTimeoutArePunished ==
  \A t \in DOMAIN th : \A k \in 1..Len(th[t].rr.log) :
    LET a == th[t].rr.log[k]
    IN  /\ FailedWith(t, k, {"transport", "timeout"}) => PunishedAndRetried(t, k)
        /\ FailedWith(t, k, {"timeout"}) =>
             /\ a.powerAfter = Max2(a.powerBefore, Min2(a.powerUsed + 1, MaxTimeoutPower))
             /\ a.powerUsed < MaxTimeoutPower => a.powerAfter = a.powerUsed + 1
        /\ (a.res = "err" /\ a.err.kind # "timeout") => a.powerAfter = a.powerBefore

C19_Witness ==
  \E t \in DOMAIN th :
    LET log == th[t].rr.log
    IN  /\ cfg.numHosts = 1
        /\ Len(log) = 3
        /\ log[1].err = TimeoutError
        /\ log[1].powerUsed = 0
        /\ log[1].powerAfter = 1
        /\ log[2].err = TransportError
        /\ log[2].powerAfter = 1
        /\ log[3].err = TimeoutError
        /\ log[3].powerUsed = 1
        /\ log[3].powerAfter = 2
        /\ \A k \in 1..3 : log[k].punished

\* ------------------------------------------------------- select_host claims
\* the hosts the scan passed over: `skipped` hosts from the start index on
ScannedHosts(t) ==
  { ((th[t].indexAtCall + j) % cfg.numHosts) + 1 : j \in 0..(th[t].selected.skipped - 1) }

\* C20: select_host on a non-empty host list returns a host of the list for
\* every punishment state and every max-punished percentage P in 0..100; it
\* skips only hosts that are punished; and when all H hosts are punished it
\* returns a host as soon as the number of skipped hosts exceeds P% of H.
C20_SelectHostAlwaysReturns ==
  \A t \in DOMAIN th :
    (th[t].kind = "selector" /\ th[t].pc = "selected")
    => LET s == th[t].selected
           H == cfg.numHosts
           P == cfg.maxPunishedHostsPercent
       IN  /\ s.host \in 1..H
           /\ ScannedHosts(t) \subseteq th[t].punishedAtCall
           /\ s.skipped > 0 => (s.skipped - 1) * 100 <= P * H
           /\ s.host \in th[t].punishedAtCall => s.skipped * 100 > P * H
           /\ th[t].punishedAtCall = 1..H =>
                /\ s.skipped * 100 > P * H
                /\ (s.skipped - 1) * 100 <= P * H

C20_Witness ==
  \E t \in DOMAIN th :
    /\ th[t].kind = "selector"
    /\ th[t].pc = "selected"
    /\ cfg.numHosts = 3
    /\ cfg.maxPunishedHostsPercent = 100
    /\ th[t].punishedAtCall = {1, 2, 3}
    /\ th[t].selected.skipped = 4
    /\ th[t].selected.host \in {1, 2, 3}

\* ------------------------------------------- cache keys on their own
\* characters of an access key, of a bucket name
MaxKeyLen == 2
KeyAlphabet == {"a", ":"}
KeyStrings == UNION {[1..m -> KeyAlphabet] : m \in 0..MaxKeyLen}

\* two keys of the map, before they are written to the file
TwoKeys(k1, k2) ==
  [pc |-> "keys", keys |-> <<k1, k2>>, tokens |-> <<>>, parsed |-> <<>>]

\* json_to_writer: each key is serialised to its token
SerializeKeys ==
  /\ q.pc = "keys"
  /\ q' = [q EXCEPT !.pc = "tokens",
                    !.tokens = [i \in 1..2 |-> SerializeKey(q.keys[i])]]
  /\ UNCHANGED <<selectorVars, uploadVars, cache, lock, disk, boot, stat>>

\* json_from_reader: each token is deserialised
DeserializeTokens ==
  /\ q.pc = "tokens"
  /\ q' = [q EXCEPT !.pc = "parsed",
                    !.parsed = [i \in 1..2 |-> DeserializeKey(q.tokens[i])]]
  /\ UNCHANGED <<selectorVars, uploadVars, cache, lock, disk, boot, stat>>

InitKeys ==
  /\ InitNoSelector
  /\ InitNoCache
  /\ up = NoUpload
  /\ upSelector = NoUpSelector
  /\ \E ak1 \in KeyStrings, b1 \in KeyStrings, ak2 \in KeyStrings, b2 \in KeyStrings :
       q = TwoKeys(CacheKey(ak1, b1), CacheKey(ak2, b2))

NextKeys ==
  \/ SerializeKeys
  \/ DeserializeTokens

SpecKeys == InitKeys /\ [][NextKeys]_vars

\* --------------------------------------- a response decoded and resolved
\* a response that is not the json of a ResponseBody
MalformedBody == <<[ttl |-> 0]>>
\* a response body with one region, which lists no domain
BodyOnlyNoDomain == <<Region(1, <<>>)>>

\* json_decode_response into ResponseBody: the derived Deserialize takes every
\* list of regions with a ttl and a list of domains, the empty lists included
JsonDecode(raw) == IF raw = MalformedBody THEN Err(DecodeError) ELSE Ok(raw)

\* a response arrives for an uncached key
Received(raw, useHttps) ==
  [pc |-> "received", body |-> raw, useHttps |-> useHttps, decoded |-> NoResult,
   entry |-> NoEntry, result |-> NoResult]

\* the attempt's response is decoded
DecodeResponse ==
  /\ q.pc = "received"
  /\ q' = [q EXCEPT !.pc = "decoded", !.decoded = JsonDecode(q.body)]
  /\ UNCHANGED <<selectorVars, uploadVars, cache, lock, disk, boot, stat>>

\* the CacheValue is made and inserted, and query_for_up_urls maps the
\* domains of its first region
ResolveDecoded ==
  /\ q.pc = "decoded"
  /\ IF q.decoded.kind # "ok"
     THEN q' = [q EXCEPT !.pc = "done", !.result = q.decoded]
     ELSE IF q.decoded.value = BodyNoRegion
     THEN q' = [q EXCEPT !.pc = "done", !.result = Panicked]
     ELSE q' = [q EXCEPT !.pc = "done",
                         !.entry = CacheValueOf(q.decoded.value),
                         !.result = UpUrls(q.decoded.value, q.useHttps)]
  /\ UNCHANGED <<selectorVars, uploadVars, cache, lock, disk, boot, stat>>

InitDecode ==
  /\ InitNoSelector
  /\ InitNoCache
  /\ up = NoUpload
  /\ upSelector = NoUpSelector
  /\ \E d \in DomainsUpTo(MaxDomainLen), useHttps \in BOOLEAN :
       \E raw \in BodiesWith(d)
                    \cup {BodyNoRegion, BodyNoDomain, BodyOnlyNoDomain, MalformedBody} :
         q = Received(raw, useHttps)

NextDecode ==
  \/ DecodeResponse
  \/ ResolveDecoded

SpecDecode == InitDecode /\ [][NextDecode]_vars

\* ------------------------------------------------------- host list claims
\* C21: the upload side's host list snapshot is not empty when select_host is
\* called, after any sequence of refreshes: a failed refresh keeps the
\* previous snapshot, and no refresh replaces the snapshot by an empty list.
C21_SnapshotNeverEmpty ==
  upSelector.pc = "built"
  => /\ upSelector.selects > 0 => upSelector.selectedFrom # <<>>
     /\ (upSelector.refreshes > 0 /\ upSelector.last.kind # "ok")
          => upSelector.hosts = upSelector.before
     /\ upSelector.hosts # <<>>

\* a failed refresh keeps the previous snapshot
FailedRefreshKeepsSnapshot ==
  (upSelector.pc = "built" /\ upSelector.refreshes > 0 /\ upSelector.last.kind # "ok")
  => upSelector.hosts = upSelector.before

\* select_host is called on an empty snapshot of a selector built with hosts
\* and with discovery urls
SelectOnEmptySnapshot ==
  /\ upSelector.pc = "built"
  /\ upSelector.ucUrls # <<>>
  /\ upSelector.selects > 0
  /\ upSelector.selectedFrom = <<>>

\* ------------------------------------------- stale entries and persistence
\* thread t holds the write lock of the shard of key k and is in a discovery run
DiscoveryHoldsShardOf(t, k) == InDiscovery(t) /\ lock.shard[ShardOf(k)] = t

\* a call that is at CACHE_MAP.entry() for a key whose entry is expired
AtEntryOfExpired(t) ==
  /\ IsCaller(t)
  /\ th[t].pc = "entry"
  /\ th[t].key \in DOMAIN cache
  /\ IsExpired(cache[th[t].key], now)

\* C22: a call for a key whose entry is expired never waits for an upstream
\* discovery: while it is at the entry of the map no thread in a discovery
\* run for the key holds the lock it needs, also when that thread is a
\* refresh of the key an earlier call spawned.
C22_StaleCallNeverWaits ==
  \A t \in DOMAIN th :
    AtEntryOfExpired(t)
    => ~ \E b \in DOMAIN th :
           th[b].key = th[t].key /\ DiscoveryHoldsShardOf(b, th[t].key)

\* a call for an expired entry waits for the refresh of its own key
StaleCallWaitsForRefresh ==
  \E t, b \in DOMAIN th :
    /\ AtEntryOfExpired(t)
    /\ th[b].kind = "spawned"
    /\ th[b].key = th[t].key
    /\ th[b].pc = "call"
    /\ DiscoveryHoldsShardOf(b, th[t].key)

\* t and u are two returned calls that inspected the same expired entry of
\* one key, and the entry has not been replaced since
SameStaleness(t, u) ==
  /\ t # u
  /\ StaleCall(t)
  /\ StaleCall(u)
  /\ th[t].key = th[u].key
  /\ th[t].seenVer = th[u].seenVer
  /\ stat.ver[th[t].key] = th[t].seenVer

\* the discovery runs for the key of t and u since the later of the two returned
RunsAfterBoth(t, u) == stat.runs[th[t].key] - Max2(th[t].runsRet, th[u].runsRet)

\* C23: for one expired entry, however many calls observe it while it is
\* stale, at most one background refresh makes a discovery run for it before
\* the entry is replaced or a later call checks its expiry, whether that
\* refresh succeeds or fails.
C23_OneDiscoveryPerStaleness ==
  \A t, u \in DOMAIN th :
    SameStaleness(t, u) => RunsAfterBoth(t, u) <= 1

\* the refresh of the first call failed and the refresh of the second runs
\* another discovery for the unchanged entry
SecondRefreshRunsAfterFailure ==
  \E t, u \in DOMAIN th :
    /\ SameStaleness(t, u)
    /\ RefreshOver(th[t].bg)
    /\ ~th[th[t].bg].modified
    /\ th[th[t].bg].rr.i >= 1
    /\ th[th[u].bg].role = "refresh"
    /\ th[th[u].bg].pc = "call"

\* the refresh thread b leaves its and_modify with a failed discovery
FailedRefreshStep(b) ==
  /\ th[b].kind = "spawned"
  /\ th[b].role = "refresh"
  /\ th[b].pc = "retried"
  /\ th[b].rr.ret.kind # "ok"
  /\ th'[b] # th[b]
  /\ stat'.restarts = stat.restarts

\* the refresh thread b made a discovery run that failed, and is over
FailedRefresh(b) == RefreshOver(b) /\ ~th[b].modified /\ th[b].rr.i >= 1

\* C24: a refresh whose discovery fails leaves the map (the entry's body and
\* deadline) and the file as they were, changes no call's result, ends
\* without calling save_cache, and a call for the key that then finds the
\* entry still expired returns that entry's urls.
C24_FailedRefreshLeavesEntry ==
  /\ [][\A b \in DOMAIN th :
          FailedRefreshStep(b)
          => /\ cache' = cache
             /\ disk' = disk
             /\ th'[b].pc = "finished"
             /\ ~th'[b].modified
             /\ \A t \in Callers : th'[t] = th[t]]_vars
  /\ [](\A u \in DOMAIN th :
          (StaleCall(u) /\ th[u].failsAt >= 1)
          => IsUrlsOf(th[u].result, th[u].seen.body, cfg.useHttps))

C24_Witness ==
  \E b, u \in DOMAIN th :
    /\ FailedRefresh(b)
    /\ th[b].pc = "finished"
    /\ StaleCall(u)
    /\ th[u].key = th[b].key
    /\ th[u].failsAt >= 1
    /\ th[u].seenVer = th[u].verAt
    /\ th[u].seen = cache[th[u].key]
    /\ th[u].result.kind = "ok"

\* the thread a returned call spawned calls save_cache: it was spawned for
\* the save, or it is a refresh that replaces the entry
SpawnedThreadSaves(t) ==
  LET b == th[t].bg
  IN  \/ th[b].role = "save"
      \/ th[b].role = "refresh" /\ (RefreshOver(b) => th[b].modified)

\* C25: every call that inserts a new entry schedules a save of the cache,
\* whatever the ttl of the entry, also when the entry is already expired when
\* the call inspects it; and every refresh that replaces an entry goes on to
\* save_cache.
C25_EveryModificationSchedulesSave ==
  /\ \A t \in DOMAIN th :
       (Returned(t) /\ th[t].modified) => SpawnedThreadSaves(t)
  /\ \A b \in DOMAIN th :
       (th[b].kind = "spawned" /\ th[b].role = "refresh" /\ th[b].modified)
       => th[b].pc \in {"save", "write", "finished"}

\* a call inserted an entry, found it expired and spawned the refresh instead
\* of the save; the refresh failed, and no save was made
InsertNeverSaved ==
  \E t \in DOMAIN th :
    /\ Returned(t)
    /\ th[t].modified
    /\ SawExpired(t)
    /\ FailedRefresh(th[t].bg)
    /\ disk = NoFile
    /\ \A b \in DOMAIN th : th[b].kind = "spawned" => th[b].role # "save"

\* thread b is in save_cache and has opened the file
Writing(b) == th[b].kind = "spawned" /\ th[b].pc = "write"
\* thread b called save_cache
CalledSave(b) ==
  /\ th[b].kind = "spawned"
  /\ th[b].pc = "finished"
  /\ (th[b].role = "save" \/ th[b].modified)
\* thread b called save_cache and returned at the failed try_lock
SaveSkipped(b) == CalledSave(b) /\ th[b].cursor = 0

\* thread b takes the step of save_cache's try_lock while the lock is held
BusyLockStep(b) ==
  /\ th[b].kind = "spawned"
  /\ th[b].pc = "save"
  /\ lock.file # 0
  /\ th'[b] # th[b]
  /\ stat'.restarts = stat.restarts

\* C26: at most one thread is writing the cache file at any time, and it
\* holds CACHE_FILE_LOCK; a save_cache that finds the lock held returns in
\* that step, with the file, the locks and the map as they were, and is not
\* run again.
C26_OneWriterAtATime ==
  /\ [](\A a, b \in DOMAIN th : (Writing(a) /\ Writing(b)) => a = b)
  /\ [](\A b \in DOMAIN th : Writing(b) => lock.file = b)
  /\ [][\A b \in DOMAIN th :
          BusyLockStep(b)
          => /\ th'[b] = [th[b] EXCEPT !.pc = "finished"]
             /\ disk' = disk
             /\ lock' = lock
             /\ cache' = cache]_vars
  /\ [][\A b \in DOMAIN th :
          (SaveSkipped(b) /\ stat'.restarts = stat.restarts) => th'[b] = th[b]]_vars

C26_Witness ==
  \E a, b \in DOMAIN th :
    /\ Writing(a)
    /\ th[a].cursor = NShards
    /\ SaveSkipped(b)

\* no call is in progress and no spawned thread has a step left: nothing
\* will write the file unless a later call modifies the map
AtRest ==
  /\ boot.init
  /\ \A t \in DOMAIN th :
       IF IsCaller(t) THEN ~InFlight(t) ELSE th[t].pc \in {"free", "finished"}

\* the file is whole and is the serialisation of the map as it is now
FileHoldsCache == disk.state = "complete" /\ disk.src = cache

\* C27: under fair scheduling, when a save was dropped because another write
\* was in flight, the file eventually holds the map as it is in memory (in a
\* process that is not stopped meanwhile).
C27_DroppedSaveIsCaptured ==
  (\E b \in DOMAIN th : SaveSkipped(b)) ~> (FileHoldsCache \/ stat.restarts > 0)

\* the same as a final state: once every call has returned and every spawned
\* thread has ended, the file holds the map as it is
FileHoldsCacheAtRest ==
  (AtRest /\ \E b \in DOMAIN th : SaveSkipped(b)) => FileHoldsCache

\* a refresh replaced an entry, its save was dropped, the write that was in
\* flight had serialised the entry before, and every thread has ended
DroppedSaveNeverCaptured ==
  \E a, b \in DOMAIN th :
    /\ AtRest
    /\ SaveSkipped(b)
    /\ th[b].role = "refresh"
    /\ CalledSave(a)
    /\ th[a].cursor = NShards
    /\ disk.state = "complete"
    /\ th[b].key \in DOMAIN disk.src
    /\ cache[th[b].key] = th[b].installed
    /\ disk.src[th[b].key] # th[b].installed
    /\ \A c \in DOMAIN th : th[c].kind = "spawned" => (th[c].pc = "free" \/ CalledSave(c))

\* ------------------------------------------------------ cache key claims
\* C28: deserialising the token a key serialises to gives the key back, for
\* every key, and two distinct keys never have the same token.
C28_KeyRoundTrip ==
  q.pc = "parsed"
  => /\ \A i \in 1..2 : q.parsed[i].ok /\ q.parsed[i].key = q.keys[i]
     /\ q.keys[1] # q.keys[2] => q.tokens[1] # q.tokens[2]

\* the same for keys whose access key holds no ':'
KeyRoundTripPlainAccessKeys ==
  (\A i \in 1..2 : \A j \in 1..Len(q.keys[i].ak) : q.keys[i].ak[j] # ":")
  => C28_KeyRoundTrip

\* two distinct keys with one token, which is read back as the second of them
TwoKeysOneToken ==
  /\ q.pc = "parsed"
  /\ q.keys[1] = CacheKey(<<"a", ":">>, <<"a">>)
  /\ q.keys[2] = CacheKey(<<"a">>, <<":", "a">>)
  /\ q.tokens[1] = q.tokens[2]
  /\ q.parsed[1].key = q.keys[2]

\* ------------------------------------------------------ cache entry claims
\* the least ttl of the regions of a body
LeastTtl(body) ==
  CHOOSE m \in {body[i].ttl : i \in 1..Len(body)} :
    \A i \in 1..Len(body) : m <= body[i].ttl

\* the discovery of thread t ends in this step with a response body
DiscoverySucceeds(t) ==
  /\ th[t].kind # "runner"
  /\ th[t].pc = "call"
  /\ th'[t].pc = "retried"
  /\ th'[t].rr.ret.kind = "ok"

\* the entry of key k is created or replaced in this step of the running process
EntryWritten(k) ==
  /\ k \in DOMAIN cache'
  /\ (k \in DOMAIN cache => cache'[k] # cache[k])
  /\ boot.init
  /\ stat'.restarts = stat.restarts

\* C29: the entry made from a response has the deadline of the instant it is
\* made plus the least ttl of the response's regions; an entry of the map is
\* only written as a whole, with the body and the deadline of one such entry;
\* and every entry of the map has a deadline that is an instant up to now
\* plus the least ttl of its body.
C29_ExpiryIsCreationPlusMinTtl ==
  /\ [][\A t \in DOMAIN th :
          DiscoverySucceeds(t)
          => \E body \in cfg.bodies :
               th'[t].rr.ret.value =
                 [body |-> body, deadline |-> now + LeastTtl(body)]]_vars
  /\ [][\A k \in KeyUniverse :
          EntryWritten(k)
          => \E t \in DOMAIN th :
               /\ th[t].pc = "retried"
               /\ th[t].key = k
               /\ th[t].rr.ret.kind = "ok"
               /\ cache'[k] = th[t].rr.ret.value]_vars
  /\ [](\A k \in DOMAIN cache :
          \E c \in 0..now : cache[k].deadline = c + LeastTtl(cache[k].body))

C29_Witness ==
  \E b \in DOMAIN th :
    /\ RefreshOver(b)
    /\ th[b].modified
    /\ th[b].installed = [body |-> BodyB, deadline |-> 2]
    /\ now = 1
    /\ cache[th[b].key] = th[b].installed

\* the last attempt of the run of thread t was answered by a response with
\* no region
AnsweredWithoutRegion(t) ==
  /\ th[t].rr.log # <<>>
  /\ LET last == th[t].rr.log[Len(th[t].rr.log)]
     IN  last.err = NoError /\ last.body = BodyNoRegion

\* C30: a discovery response with zero regions makes the resolution return a
\* decode error value to its caller: the run does not panic.
C30_ZeroRegionsIsDecodeError ==
  \A t \in DOMAIN th :
    (th[t].kind = "runner" /\ th[t].pc = "done" /\ AnsweredWithoutRegion(t))
    => th[t].result = Err(DecodeError)

\* the run panicked on the first response, which had no region
ZeroRegionsPanics ==
  \E t \in DOMAIN th :
    /\ th[t].kind = "runner"
    /\ th[t].pc = "done"
    /\ AnsweredWithoutRegion(t)
    /\ Len(th[t].rr.log) = 1
    /\ th[t].result = Panicked

\* ------------------------------------------------------ decode claims
\* a body with a region that lists no domain
HasRegionWithoutDomain(raw) ==
  raw # MalformedBody /\ \E i \in 1..Len(raw) : raw[i].domains = <<>>

\* C31: a response with a region that has no domains is rejected when it is
\* decoded, no entry holds an empty domain list, and the resolution never
\* returns an empty list of urls.
C31_NoEmptyDomainList ==
  /\ (q.pc \in {"decoded", "done"} /\ HasRegionWithoutDomain(q.body))
       => q.decoded = Err(DecodeError)
  /\ (q.pc = "done" /\ q.entry # NoEntry)
       => \A i \in 1..Len(q.entry.body) : q.entry.body[i].domains # <<>>
  /\ (q.pc = "done" /\ q.result.kind = "ok") => q.result.value # <<>>

\* a response is rejected when it is not the json of a ResponseBody
MalformedBodyIsDecodeError ==
  (q.pc = "done" /\ q.body = MalformedBody)
  => (q.result = Err(DecodeError) /\ q.entry = NoEntry)

\* an entry whose first region has no domain is made and resolves to no url
EmptyDomainListResolved ==
  /\ q.pc = "done"
  /\ q.body = BodyNoDomain
  /\ q.entry.body = BodyNoDomain
  /\ q.result = Ok(<<>>)

\* ------------------------------------------------ sequential source claims
\* the parts a sequential source has yielded so far
StreamParts == [i \in 1..Len(up.calls) |-> up.calls[i].bytes]

\* C32: for a sequential source of L bytes and part size P >= 1 the parts
\* yielded are of exactly P bytes while at least P bytes remain, then one
\* part of L mod P bytes if that is not zero, then None; no part is empty
\* and the parts in order concatenate to the bytes of the stream.
C32_ImpartibleYieldsTheStream ==
  (up.pc # "none" /\ up.mode = "stream" /\ up.partSize >= 1)
  => LET L == up.size
         P == up.partSize
         full == L \div P
         count == full + (IF L % P # 0 THEN 1 ELSE 0)
     IN  /\ up.pc \in {"start", "next", "exhausted"}
         /\ Len(StreamParts) <= count
         /\ \A i \in 1..Len(StreamParts) :
              /\ StreamParts[i] # <<>>
              /\ i <= full => Len(StreamParts[i]) = P
              /\ i > full => Len(StreamParts[i]) = L % P
         /\ IsPrefix(ConcatBytes(up.calls), Content(L))
         /\ up.pc = "exhausted"
              => /\ Len(StreamParts) = count
                 /\ ConcatBytes(up.calls) = Content(L)
                 /\ up.pt.stream = <<>>

\* a stream of 5 bytes in parts of 2 bytes: 2, 2 and 1 bytes, then None
ImpartibleWitness ==
  /\ up.mode = "stream"
  /\ up.pc = "exhausted"
  /\ up.size = 5
  /\ up.partSize = 2
  /\ StreamParts = << <<1, 2>>, <<3, 4>>, <<5>> >>

\* ------------------------------------------------- failed discovery claims
\* caller t leaves or_try_insert_with with the error of its discovery
FailedInsertStep(t) ==
  /\ th[t].kind = "caller"
  /\ th[t].pc = "retried"
  /\ th[t].rr.ret.kind # "ok"
  /\ th'[t] # th[t]
  /\ stat'.restarts = stat.restarts

\* caller u takes the entry of its key after a discovery for the key failed
\* since u was called, and no entry was made since
EntryAfterFailure(u) ==
  /\ th[u].kind = "caller"
  /\ th[u].pc = "entry"
  /\ th'[u].pc # "entry"
  /\ stat'.restarts = stat.restarts
  /\ stat.fails[th[u].key] > th[u].failsAt
  /\ stat.ver[th[u].key] = th[u].verAt

\* the call of t returned the error of a discovery of its own
ReturnedOwnError(t) ==
  /\ th[t].kind = "caller"
  /\ th[t].pc = "done"
  /\ th[t].result.kind = "err"

\* C33: a call whose discovery fails returns that error, leaves the map
\* without an entry for the key and the file as it was, and spawns no thread;
\* a call that takes the entry after the failure, a call that waited for it
\* included, runs a discovery of its own.
C33_FailedDiscoveryNotCached ==
  /\ [][\A t \in DOMAIN th :
          FailedInsertStep(t)
          => /\ th'[t].pc = "done"
             /\ th'[t].result = th[t].rr.ret
             /\ th'[t].result.kind = "err"
             /\ cache' = cache
             /\ th[t].key \notin DOMAIN cache'
             /\ disk' = disk
             /\ \A b \in DOMAIN th : b # t => th'[b] = th[b]]_vars
  /\ [][\A u \in DOMAIN th :
          (EntryAfterFailure(u) /\ th[u].key \notin DOMAIN cache)
          => /\ th'[u].pc = "select"
             /\ th'[u].rr = RetryLocals
             /\ stat'.runs[th[u].key] = stat.runs[th[u].key] + 1]_vars
  /\ [](\A t \in DOMAIN th :
          ReturnedOwnError(t)
          => /\ ~th[t].found
             /\ ~th[t].modified
             /\ th[th[t].bg].pc = "free")

\* caller u was called while the discovery of caller t for the same key was
\* running, t's discovery failed, and u then ran its own
C33_Witness ==
  \E t, u \in Callers :
    /\ t # u
    /\ ReturnedOwnError(t)
    /\ th[u].pc = "done"
    /\ th[u].key = th[t].key
    /\ th[u].runsAt = 1
    /\ th[u].failsAt = 0
    /\ th[t].failsRet = 1
    /\ ~th[u].found
    /\ th[u].rr.i >= 1
    /\ th[u].runsRet = 2
    /\ stat.restarts = 0

\* --------------------------------------------------------- progress claims
\* thread t is in a call of query_for_up_urls, or is a spawned thread that
\* has not finished
Running(t) == th[t].pc \notin {"idle", "done", "free", "finished"}

\* thread t waits for the lock of a shard that another thread holds
WaitsForShard(t, s) ==
  /\ lock.shard[s] \notin {0, t}
  /\ \/ th[t].pc \in {"entry", "refresh"} /\ ShardOf(th[t].key) = s
     \/ th[t].pc = "write" /\ th[t].cursor = s

\* C34: under fair scheduling of the threads, with every discovery attempt
\* returning, every call of query_for_up_urls returns and every spawned
\* refresh or save thread finishes.
C34_EveryThreadFinishes ==
  \A t \in DOMAIN CacheThreads : Running(t) ~> ~Running(t)

\* no thread waits for a lock while no thread can take a step
C34_SomeThreadCanStep ==
  (\E t \in DOMAIN th : Running(t)) => (\E t \in DOMAIN th : ENABLED ThreadStep(t))

\* a save thread holds the file lock and waits for a shard whose entry lock a
\* discovery in progress holds
C34_Witness ==
  \E b, u \in DOMAIN th :
    /\ th[b].pc = "write"
    /\ lock.file = b
    /\ WaitsForShard(b, th[b].cursor)
    /\ lock.shard[th[b].cursor] = u
    /\ th[u].pc \in {"select", "call"}

\* one run of the process, each discovery making a single attempt: the
\* threads of SpecCache without the restart of the process, under fair
\* scheduling of the threads
InitCacheRun == InitCache /\ cfg.tries = 1

NextCacheRun ==
  \/ Tick
  \/ \E t \in DOMAIN th : QueryForUpUrls(t)
  \/ \E t \in DOMAIN th : ThreadStep(t)

SpecCacheRun ==
  /\ InitCacheRun
  /\ [][NextCacheRun]_vars
  /\ \A t \in DOMAIN CacheThreads : WF_vars(ThreadStep(t))

\* ------------------------------------------------------ termination claims
\* C35: for every source and every part size, 0 included, the part loop of
\* start makes a bounded number of upload-part calls: every call carries at
\* least one more byte of the source, so a source of S bytes is uploaded in
\* at most S calls.
C35_PartLoopIsBounded ==
  (up.pc # "none" /\ up.mode \in {"file", "reader"})
  => Len(PartCalls) <= up.size

\* the bound holds for part sizes from 1 and sizes below 2^63: the loop makes
\* at most ceil(S / P) calls
PartLoopBoundedForOrdinarySizes ==
  (up.pc # "none" /\ up.mode \in {"file", "reader"}
     /\ up.partSize >= 1 /\ up.size < 2 ^ (U64Bits - 1))
  => Len(PartCalls) <= CeilDiv(up.size, up.partSize)

\* part size 0 and a file of 1 byte: the offset has not moved after as many
\* empty parts as the model counts
PartLoopNeverAdvances ==
  /\ up.mode = "file"
  /\ up.pc = "next"
  /\ up.size = 1
  /\ up.partSize = 0
  /\ up.pt.offset = 0
  /\ Len(up.completedParts) = U64Max + 1
  /\ \A i \in 1..Len(PartCalls) : PartCalls[i].bytes = <<>>

\* ------------------------------------------------------------ abort claims
\* C36: for every tries >= 0 and every sequence of attempt outcomes the
\* retry run ends with a success value or an error value, never with a panic.
C36_RetryRunnerNeverPanics ==
  \A t \in DOMAIN th :
    RetryOver(t) => th[t].rr.ret.kind \in {"ok", "err"}

\* with tries >= 1 the run ends with a value unless an attempt's closure
\* panicked on a body without regions
RetryReturnsValueWhenTriesPositive ==
  \A t \in DOMAIN th :
    ( /\ RetryOver(t)
      /\ cfg.tries >= 1
      /\ \A k \in 1..Len(th[t].rr.log) : th[t].rr.log[k].res # "panic" )
    => th[t].rr.ret.kind \in {"ok", "err"}

\* tries = 0: no attempt was made and the run ended with a panic
ZeroTriesPanics ==
  \E t \in DOMAIN th :
    /\ RetryOver(t)
    /\ cfg.tries = 0
    /\ th[t].rr.log = <<>>
    /\ th[t].rr.i = 0
    /\ th[t].rr.ret = Panicked

====
